---- MODULE Spec2Model ----
(***************************************************************************)
(* Model of cvd_risk_app.py, the SMART CVD Risk Reduction Calculator.      *)
(*                                                                         *)
(* The script is a Streamlit page: every change of a sidebar widget        *)
(* re-runs the whole script, which recomputes every derived value from the *)
(* widget values.  The state is the widget values plus the values the      *)
(* script computes; each action is one widget change followed by the       *)
(* complete re-run.                                                        *)
(*                                                                         *)
(* Python floats are IEEE-754 binary64.  They are modelled bit-exactly     *)
(* (53-bit significand, round-to-nearest-even) on top of a small           *)
(* arbitrary-precision natural-number layer, because the properties of     *)
(* interest (order invariance, exact identity, rounding to one decimal)    *)
(* depend on the rounding of each operation.  Results below 2^-1022 are    *)
(* rounded as subnormals (0.900**y underflows for large y); no result of   *)
(* the program comes near the largest binary64.                            *)
(***************************************************************************)
EXTENDS Integers, Sequences, FiniteSets, TLC

(***************************************************************************)
(* Natural numbers of arbitrary size: little-endian sequences of limbs in  *)
(* base 2^14, without leading zero limbs (zero is the empty sequence).     *)
(***************************************************************************)
Base == 16384

LimbBits == 14

Pow2(k) == 2 ^ k

RECURSIVE BigTrim(_)
BigTrim(a) ==
  IF a = << >> THEN << >>
  ELSE IF a[Len(a)] = 0 THEN BigTrim(SubSeq(a, 1, Len(a) - 1))
  ELSE a

RECURSIVE BigFromInt(_)
BigFromInt(n) ==
  IF n = 0 THEN << >> ELSE << n % Base >> \o BigFromInt(n \div Base)

RECURSIVE BigToInt(_)
BigToInt(a) ==
  IF a = << >> THEN 0 ELSE Head(a) + Base * BigToInt(Tail(a))

RECURSIVE BigAddC(_, _, _)
BigAddC(a, b, c) ==
  IF a = << >> /\ b = << >> THEN (IF c = 0 THEN << >> ELSE << c >>)
  ELSE LET x == (IF a = << >> THEN 0 ELSE Head(a))
           y == (IF b = << >> THEN 0 ELSE Head(b))
           t == x + y + c
       IN << t % Base >> \o
          BigAddC(IF a = << >> THEN << >> ELSE Tail(a),
                  IF b = << >> THEN << >> ELSE Tail(b), t \div Base)

BigAdd(a, b) == BigAddC(a, b, 0)

\* a - b for a >= b (before trimming)
RECURSIVE BigSubB(_, _, _)
BigSubB(a, b, c) ==
  IF a = << >> THEN << >>
  ELSE LET y == (IF b = << >> THEN 0 ELSE Head(b))
           t == Head(a) - y - c
       IN << IF t < 0 THEN t + Base ELSE t >> \o
          BigSubB(Tail(a), IF b = << >> THEN << >> ELSE Tail(b),
                  IF t < 0 THEN 1 ELSE 0)

BigSub(a, b) == BigTrim(BigSubB(a, b, 0))

\* -1, 0, 1 as a < b, a = b, a > b
RECURSIVE BigCmpFrom(_, _, _)
BigCmpFrom(a, b, i) ==
  IF i = 0 THEN 0
  ELSE IF a[i] < b[i] THEN -1
  ELSE IF a[i] > b[i] THEN 1
  ELSE BigCmpFrom(a, b, i - 1)

BigCmp(a, b) ==
  IF Len(a) < Len(b) THEN -1
  ELSE IF Len(a) > Len(b) THEN 1
  ELSE BigCmpFrom(a, b, Len(a))

\* a * n + c for 0 <= n < Base
RECURSIVE BigMulSmallC(_, _, _)
BigMulSmallC(a, n, c) ==
  IF a = << >> THEN (IF c = 0 THEN << >> ELSE << c >>)
  ELSE LET t == Head(a) * n + c
       IN << t % Base >> \o BigMulSmallC(Tail(a), n, t \div Base)

BigMulSmall(a, n) == IF n = 0 THEN << >> ELSE BigMulSmallC(a, n, 0)

\* a * b[j] * Base^(j-1), zero when b has no limb j
MulLimb(a, b, j) ==
  IF j > Len(b) \/ b[j] = 0 THEN << >>
  ELSE [i \in 1..(j - 1) |-> 0] \o BigMulSmallC(a, b[j], 0)

\* a * b for b of at most four limbs
BigMul(a, b) ==
  IF b = << >> \/ a = << >> THEN << >>
  ELSE BigAdd(BigAdd(MulLimb(a, b, 1), MulLimb(a, b, 2)),
              BigAdd(MulLimb(a, b, 3), MulLimb(a, b, 4)))

\* << quotient, remainder >> of a by n, 0 < n < Base
\* the limbs of a from limb i up, modulo n
RECURSIVE RemFrom(_, _, _)
RemFrom(a, n, i) ==
  IF i > Len(a) THEN 0 ELSE ((RemFrom(a, n, i + 1) * Base) + a[i]) % n

BigDivSmall(a, n) ==
  << BigTrim(SubSeq([i \in 1..Len(a) |-> ((RemFrom(a, n, i + 1) * Base) + a[i]) \div n],
                    1, Len(a))),
     RemFrom(a, n, 1) >>

\* the number of bits of a: those of the limbs below the top one, and the
\* powers of two that the top limb reaches
BigBitLen(a) ==
  IF a = << >> THEN 0
  ELSE LimbBits * (Len(a) - 1) +
       Cardinality({ k \in 0..(LimbBits - 1) : Pow2(k) <= a[Len(a)] })

\* a * 2^k
BigShl(a, k) ==
  IF a = << >> THEN << >>
  ELSE [i \in 1..(k \div LimbBits) |-> 0] \o BigMulSmallC(a, Pow2(k % LimbBits), 0)

\* floor(a / 2^k)
BigShr(a, k) ==
  LET d == k \div LimbBits
      r == k % LimbBits
  IN IF d >= Len(a) THEN << >>
     ELSE LET s == SubSeq(a, d + 1, Len(a))
          IN IF r = 0 THEN s
             ELSE BigTrim([i \in 1..Len(s) |->
                    (s[i] \div Pow2(r)) +
                    (IF i < Len(s) THEN (s[i + 1] % Pow2(r)) * Pow2(LimbBits - r)
                     ELSE 0)])

\* bit i of a (bit 0 is the least significant)
BigBit(a, i) ==
  LET d == i \div LimbBits
  IN IF d >= Len(a) THEN 0 ELSE (a[d + 1] \div Pow2(i % LimbBits)) % 2

\* a mod 2^k # 0
BigLowNonzero(a, k) ==
  LET d == k \div LimbBits
      r == k % LimbBits
  IN (\E i \in 1..d : i <= Len(a) /\ a[i] # 0)
     \/ (d < Len(a) /\ a[d + 1] % Pow2(r) # 0)

BigOdd(a) == a # << >> /\ a[1] % 2 = 1

(***************************************************************************)
(* binary64 values: [s |-> sign (0 or 1), m |-> significand, e |-> exp],   *)
(* standing for (-1)^s * m * 2^e with m a 53-bit natural (2^52 <= m <      *)
(* 2^53), or zero (m empty, e = 0, s = 0).                                 *)
(***************************************************************************)
Prec == 53

FZero == [s |-> 0, m |-> << >>, e |-> 0]

IsZero(x) == x.m = << >>

\* the exponent of the smallest subnormal, 2^-1074
MinExp == -1074

\* q * 2^e with q of at most 54 bits, and of 54 only as 2^53
FRenorm(s, q, e) ==
  IF q = << >> THEN FZero
  ELSE IF BigBitLen(q) > Prec THEN [s |-> s, m |-> BigShr(q, 1), e |-> e + 1]
  ELSE [s |-> s, m |-> BigShl(q, Prec - BigBitLen(q)), e |-> e - (Prec - BigBitLen(q))]

\* n is cut by sh bits to q; the cut-off part decides the rounding: up when
\* it is above one half, or one half and q is odd
FRoundCut(s, n, e, sh, q) ==
  FRenorm(s,
          IF BigBit(n, sh - 1) = 1 /\ (BigLowNonzero(n, sh - 1) \/ BigOdd(q))
          THEN BigAdd(q, << 1 >>) ELSE q,
          e + sh)

\* the bits an l-bit n * 2^e loses: those beyond 53, and those below 2^MinExp
CutBits(e, l) == IF l - Prec >= MinExp - e THEN l - Prec ELSE MinExp - e

\* n # 0 has l bits
FRoundLen(s, n, e, l) ==
  IF CutBits(e, l) <= 0
  THEN [s |-> s, m |-> BigShl(n, Prec - l), e |-> e - (Prec - l)]
  ELSE FRoundCut(s, n, e, CutBits(e, l), BigShr(n, CutBits(e, l)))

\* the binary64 nearest to (-1)^s * n * 2^e, ties to even; the significand is
\* kept at 53 bits for subnormals too (with zeros at the low end)
FRound(s, n, e) ==
  IF n = << >> THEN FZero ELSE FRoundLen(s, n, e, BigBitLen(n))

\* int -> float
FromInt(n) == FRound(IF n < 0 THEN 1 ELSE 0, BigFromInt(IF n < 0 THEN -n ELSE n), 0)

FNeg(x) == IF IsZero(x) THEN x ELSE [x EXCEPT !.s = 1 - x.s]

FAbs(x) == [x EXCEPT !.s = 0]

\* comparison of magnitudes: -1, 0, 1
MagCmp(x, y) ==
  IF IsZero(x) THEN (IF IsZero(y) THEN 0 ELSE -1)
  ELSE IF IsZero(y) THEN 1
  ELSE IF x.e < y.e THEN -1
  ELSE IF x.e > y.e THEN 1
  ELSE BigCmp(x.m, y.m)

\* x < y, x <= y
FLt(x, y) ==
  IF x.s = 1 /\ y.s = 0 THEN ~(IsZero(x) /\ IsZero(y))
  ELSE IF x.s = 0 /\ y.s = 1 THEN FALSE
  ELSE IF x.s = 0 THEN MagCmp(x, y) = -1
  ELSE MagCmp(x, y) = 1

FLe(x, y) == ~FLt(y, x)

\* Python's max(x, y) and min(x, y): the first argument unless the second is
\* strictly greater (smaller)
FMax(x, y) == IF FLt(x, y) THEN y ELSE x

FMin(x, y) == IF FLt(y, x) THEN y ELSE x

\* exponent distance beyond which the smaller operand cannot change the sum
FarApart == 60

\* the operand of the larger magnitude (x when they are equal) and the other
Larger(x, y) == IF MagCmp(x, y) >= 0 THEN x ELSE y

Smaller(x, y) == IF MagCmp(x, y) >= 0 THEN y ELSE x

\* hi + lo for |hi| >= |lo|: the exact sum, rounded once
AddOrdered(hi, lo) ==
  IF IsZero(lo) \/ hi.e - lo.e > FarApart THEN hi
  ELSE FRound(hi.s,
              IF hi.s = lo.s THEN BigAdd(BigShl(hi.m, hi.e - lo.e), lo.m)
              ELSE BigSub(BigShl(hi.m, hi.e - lo.e), lo.m),
              lo.e)

FAdd(x, y) == AddOrdered(Larger(x, y), Smaller(x, y))

FSub(x, y) == FAdd(x, FNeg(y))

FMul(x, y) ==
  IF IsZero(x) \/ IsZero(y) THEN FZero
  ELSE FRound((x.s + y.s) % 2, BigMul(x.m, y.m), x.e + y.e)

\* n1 * 2^e with sign s1 plus n2 * 2^e with sign s2, rounded once
Combine(s1, n1, s2, n2, e) ==
  FRound(IF s1 = s2 \/ BigCmp(n1, n2) >= 0 THEN s1 ELSE s2,
         IF s1 = s2 THEN BigAdd(n1, n2)
         ELSE IF BigCmp(n1, n2) >= 0 THEN BigSub(n1, n2) ELSE BigSub(n2, n1),
         e)

\* the product n * 2^e with sign s, of 105 or 106 bits, plus z, whose
\* exponent is ze (e when z is zero), rounded once: a z far below the product
\* only breaks a tie and is added as a quarter of the product's last bit, a z
\* far above it is the result
FmaOf(s, n, e, z, ze) ==
  IF ze - e > 2 * FarApart THEN z
  ELSE Combine(s,
               BigShl(n, IF e - ze > FarApart THEN 2 ELSE IF e >= ze THEN e - ze ELSE 0),
               z.s,
               IF e - ze > FarApart THEN << 1 >>
               ELSE IF e >= ze THEN z.m ELSE BigShl(z.m, ze - e),
               IF e - ze > FarApart THEN e - 2 ELSE IF e >= ze THEN ze ELSE e)

\* fma(x, y, z): x * y + z with a single rounding
FFma(x, y, z) ==
  IF IsZero(x) \/ IsZero(y) THEN z
  ELSE FmaOf((x.s + y.s) % 2, BigMul(x.m, y.m), x.e + y.e, z,
             IF IsZero(z) THEN x.e + y.e ELSE z.e)

\* x / n for an integer 0 < n < Base (n is exactly representable)
GuardBits == 16

\* twice the quotient, plus one when the division left a remainder: enough
\* to round the exact quotient
WithSticky(q, inexact) == BigAddC(BigShl(q, 1), << >>, IF inexact THEN 1 ELSE 0)

FDivSmallOf(x, qr) == FRound(x.s, WithSticky(qr[1], qr[2] # 0), x.e - GuardBits - 1)

FDivSmall(x, n) ==
  IF IsZero(x) THEN FZero
  ELSE FDivSmallOf(x, BigDivSmall(BigShl(x.m, GuardBits), n))

\* Long division in base 2^14 by a normalised 53-bit divisor d (four limbs).
\* DivLimb(r, d, acc) is << floor(r / d) + acc, r mod d >> for r < d * Base:
\* the quotient is estimated from below with the leading limbs and refined.
TopShift == 42

RECURSIVE DivLimb(_, _, _)
RECURSIVE DivStep(_, _, _, _)
DivStep(r, d, acc, qh) ==
  IF qh = 0 THEN DivLimb(BigSub(r, d), d, acc + 1)
  ELSE DivLimb(BigSub(r, BigMulSmall(d, qh)), d, acc + qh)

DivLimb(r, d, acc) ==
  IF BigCmp(r, d) < 0 THEN << acc, r >>
  ELSE DivStep(r, d, acc,
               BigToInt(BigShr(r, TopShift)) \div (BigToInt(BigShr(d, TopShift)) + 1))

\* << limbs of floor(r * Base^n / d), least significant first, remainder >>:
\* q holds the digits found so far and qr the digit and remainder of the
\* last step; once the remainder is zero the digits still due are zeros.
RECURSIVE DivDigitsOf(_, _, _, _)
DivDigitsOf(q, qr, d, n) ==
  IF qr[2] = << >> \/ n = 0
  THEN << [i \in 1..n |-> 0] \o << qr[1] >> \o q, qr[2] >>
  ELSE DivDigitsOf(<< qr[1] >> \o q, DivLimb(<< 0 >> \o qr[2], d, 0), d, n - 1)

DivDigits(r, d, n) == DivDigitsOf(<< >>, DivLimb(r, d, 0), d, n)

QuotLimbs == 4

FDivOf(x, y, qr) ==
  FRound((x.s + y.s) % 2, WithSticky(BigTrim(qr[1]), qr[2] # << >>),
         x.e - y.e - QuotLimbs * LimbBits - 1)

FDiv(x, y) ==
  IF IsZero(x) THEN FZero ELSE FDivOf(x, y, DivDigits(x.m, y.m, QuotLimbs))

\* the decimal literal n / 10^k of the source, n and 10^k below Base
Lit(n, d) == FDivSmall(FromInt(n), d)

\* round-half-even of x * k to an integer, computed on the exact value of x
\* (Python's round(x, 1) is RoundScaled(x, 10) / 10)
\* n / 2^sh rounded half-even, q being its integer part
RoundCut(n, sh, q) ==
  IF BigBit(n, sh - 1) = 1 /\ (BigLowNonzero(n, sh - 1) \/ q % 2 = 1)
  THEN q + 1 ELSE q

\* n * 2^e rounded half-even to an integer
RoundNat(n, e) ==
  IF e >= 0 THEN BigToInt(BigShl(n, e))
  ELSE RoundCut(n, -e, BigToInt(BigShr(n, -e)))

RoundScaled(x, k) ==
  IF IsZero(x) THEN 0
  ELSE (IF x.s = 1 THEN -1 ELSE 1) * RoundNat(BigMulSmall(x.m, k), x.e)

(***************************************************************************)
(* math.exp, math.log and the float power operator call exp, log and pow   *)
(* of the C library (glibc 2.36 on x86-64, the variants built with fused   *)
(* multiply-add).  They are modelled operation by operation: the same      *)
(* argument reduction, tables, polynomial coefficients and sequence of     *)
(* roundings, so that the results agree bit for bit.  Where Python raises  *)
(* an exception the model gives the exception's name in place of a float.  *)
(***************************************************************************)
\* The one member of a singleton set.  A local of the source is bound to its
\* value when it is assigned: Only({ f(v) : v \in { e } }) is f at the value
\* of e.
Only(S) == CHOOSE v \in S : TRUE

\* 1.0, -1.0 and 2^27
One == [s |-> 0, m |-> << 0, 0, 0, 1024 >>, e |-> -52]

MinusOne == [s |-> 1, m |-> << 0, 0, 0, 1024 >>, e |-> -52]

Split27 == [s |-> 0, m |-> << 0, 0, 0, 1024 >>, e |-> -25]

\* a result of 2^1024 or more is infinite in binary64: Python raises
Finite(v) == IF v.e + Prec > 1024 THEN "OverflowError" ELSE v

\* the binary64 at position i of a table row
B64(t, i) ==
  IF t[i + 5] = 0 THEN FZero
  ELSE [s |-> t[i], m |-> << t[i + 2], t[i + 3], t[i + 4], t[i + 5] >>, e |-> t[i + 1]]

\* exp: N = 128; x = k * ln2/N + r, exp(x) = 2^(k/N) * exp(r).  poly holds C2..C5
\* of exp(r) - 1 - r; row j + 1 of the table holds tail and scale with
\* 2^(j/N) = scale * (1 + tail), each as sign, exponent and four limbs.
exp_data ==
  [invln2N |-> [s |-> 0, m |-> << 766, 5294, 5238, 1477 >>, e |-> -45],
   shift |-> [s |-> 0, m |-> << 0, 0, 0, 1536 >>, e |-> 0],
   negln2hiN |-> [s |-> 1, m |-> << 0, 15336, 9263, 1419 >>, e |-> -60],
   negln2loN |-> [s |-> 1, m |-> << 15162, 12920, 14763, 1853 >>, e |-> -99],
   poly |-> << [s |-> 0, m |-> << 15805, 16383, 16383, 2047 >>, e |-> -54],
            [s |-> 0, m |-> << 5180, 5461, 5461, 1365 >>, e |-> -55],
            [s |-> 0, m |-> << 11153, 15452, 5468, 1365 >>, e |-> -57],
            [s |-> 0, m |-> << 4119, 7827, 4374, 1092 >>, e |-> -59] >> ]

exp_data_tab ==
  << << 0, 0, 0, 0, 0, 0, 0, -52, 0, 0, 0, 1024 >>,
     << 0, -106, 16238, 10786, 13553, 1742, 0, -52, 13109, 10220, 9178, 1029 >>,
     << 1, -108, 7261, 13155, 313, 1112, 0, -52, 97, 14814, 2467, 1035 >>,
     << 1, -106, 9937, 541, 10145, 1047, 0, -52, 16261, 8633, 12638, 1040 >>,
     << 0, -107, 13843, 5535, 9507, 1844, 0, -52, 1396, 3158, 6925, 1046 >>,
     << 1, -107, 3834, 4070, 10242, 1779, 0, -52, 14046, 10103, 1714, 1052 >>,
     << 0, -109, 2145, 1947, 13542, 1085, 0, -52, 7112, 8662, 13393, 1057 >>,
     << 0, -106, 5017, 11471, 15941, 1064, 0, -52, 13187, 11035, 9196, 1063 >>,
     << 0, -106, 15213, 13837, 10853, 1510, 0, -52, 2319, 13286, 5510, 1069 >>,
     << 0, -107, 12284, 3063, 4521, 1965, 0, -52, 2039, 11721, 2338, 1075 >>,
     << 0, -112, 7377, 190, 9175, 1967, 0, -52, 4514, 2895, 16067, 1080 >>,
     << 1, -109, 11787, 9793, 13128, 1664, 0, -52, 4891, 16379, 13930, 1086 >>,
     << 1, -106, 15630, 10430, 9506, 1365, 0, -52, 6993, 73, 12317, 1092 >>,
     << 1, -110, 10837, 12603, 3832, 1056, 0, -52, 12748, 432, 11228, 1098 >>,
     << 1, -106, 13334, 10071, 4667, 1138, 0, -52, 11744, 15012, 10666, 1104 >>,
     << 0, -107, 5551, 9585, 15934, 1076, 0, -52, 3665, 8854, 10636, 1110 >>,
     << 1, -107, 4936, 10902, 12638, 1030, 0, -52, 4475, 12789, 11139, 1116 >>,
     << 1, -107, 12861, 6008, 16133, 1991, 0, -52, 3562, 8754, 12179, 1122 >>,
     << 0, -107, 5055, 15437, 6339, 1762, 0, -52, 2933, 11711, 13758, 1128 >>,
     << 1, -106, 11046, 6215, 6599, 1462, 0, -52, 7380, 4113, 15880, 1134 >>,
     << 0, -106, 12128, 14568, 3955, 1723, 0, -52, 14762, 1442, 2163, 1141 >>,
     << 1, -107, 14493, 11800, 14380, 2041, 0, -52, 6429, 3059, 5378, 1147 >>,
     << 0, -107, 909, 4763, 13332, 1691, 0, -52, 3286, 8586, 9144, 1153 >>,
     << 0, -107, 1149, 912, 8283, 1054, 0, -52, 7318, 1527, 13465, 1159 >>,
     << 0, -106, 10388, 3746, 12254, 1443, 0, -52, 8760, 14805, 1958, 1166 >>,
     << 0, -107, 2173, 2513, 8591, 1495, 0, -52, 9791, 16074, 7396, 1172 >>,
     << 0, -107, 10226, 8319, 12985, 1041, 0, -52, 15581, 6025, 13398, 1178 >>,
     << 1, -106, 2142, 15812, 1971, 1454, 0, -52, 9089, 2005, 3582, 1185 >>,
     << 0, -107, 11057, 13350, 15894, 1213, 0, -52, 7905, 5247, 10719, 1191 >>,
     << 1, -112, 16378, 10686, 6577, 1864, 0, -52, 6544, 875, 2045, 1198 >>,
     << 0, -107, 2740, 2096, 14375, 1741, 0, -52, 779, 7056, 10330, 1204 >>,
     << 0, -109, 2959, 10043, 2344, 1925, 0, -52, 12118, 9464, 2810, 1211 >>,
     << 0, -107, 11190, 14018, 5972, 1235, 0, -52, 14101, 10438, 12256, 1217 >>,
     << 0, -107, 13388, 2737, 8222, 1424, 0, -52, 6193, 12595, 5903, 1224 >>,
     << 0, -107, 14410, 14159, 5013, 2039, 0, -52, 5887, 2448, 139, 1231 >>,
     << 1, -107, 6916, 11833, 14339, 1448, 0, -52, 8177, 15946, 11349, 1237 >>,
     << 1, -106, 4200, 12589, 11996, 1170, 0, -52, 10699, 7402, 6771, 1244 >>,
     << 1, -106, 11662, 11588, 16257, 1601, 0, -52, 6246, 13335, 2790, 1251 >>,
     << 1, -108, 14034, 14928, 7811, 1140, 0, -52, 8183, 5014, 15795, 1257 >>,
     << 1, -106, 6933, 3896, 4507, 1606, 0, -52, 10469, 3150, 13020, 1264 >>,
     << 0, -107, 3181, 7337, 13450, 1383, 0, -52, 13346, 12360, 10852, 1271 >>,
     << 1, -106, 10634, 10401, 9735, 1220, 0, -52, 28, 4786, 9296, 1278 >>,
     << 1, -110, 2395, 8286, 14580, 1577, 0, -52, 11818, 2012, 8354, 1285 >>,
     << 1, -108, 6683, 7462, 2486, 1803, 0, -52, 10391, 9538, 8029, 1292 >>,
     << 0, -111, 11281, 778, 16086, 1240, 0, -52, 2349, 390, 8326, 1299 >>,
     << 0, -106, 9455, 11289, 8339, 1433, 0, -52, 87, 13428, 9246, 1306 >>,
     << 0, -109, 889, 10884, 3613, 1971, 0, -52, 15568, 5892, 10795, 1313 >>,
     << 0, -106, 4656, 15420, 14563, 1279, 0, -52, 5086, 863, 12975, 1320 >>,
     << 0, -108, 12208, 11754, 3307, 1444, 0, -52, 10791, 5336, 15789, 1327 >>,
     << 0, -106, 8311, 11603, 7134, 1223, 0, -52, 7437, 10231, 2857, 1335 >>,
     << 1, -107, 9102, 454, 832, 2021, 0, -52, 11431, 6772, 6951, 1342 >>,
     << 1, -107, 9033, 12878, 11469, 1527, 0, -52, 9794, 2877, 11690, 1349 >>,
     << 1, -108, 14431, 13372, 11371, 1591, 0, -52, 3970, 6773, 693, 1357 >>,
     << 1, -107, 7414, 12781, 9326, 1412, 0, -52, 4623, 10614, 6732, 1364 >>,
     << 0, -106, 6030, 9207, 4177, 1229, 0, -52, 10202, 6868, 13427, 1371 >>,
     << 0, -108, 6917, 15914, 2930, 1766, 0, -52, 2045, 4703, 4397, 1379 >>,
     << 0, -106, 5129, 2161, 15902, 1048, 0, -52, 5161, 13601, 12413, 1386 >>,
     << 0, -112, 1770, 103, 14421, 1329, 0, -52, 1719, 10597, 4712, 1394 >>,
     << 0, -106, 53, 11667, 11874, 1292, 0, -52, 8520, 5812, 14065, 1401 >>,
     << 1, -107, 13983, 1637, 1190, 1849, 0, -52, 7177, 9691, 7707, 1409 >>,
     << 1, -107, 3496, 12221, 15443, 1804, 0, -52, 5509, 233, 2027, 1417 >>,
     << 1, -107, 10670, 9391, 14216, 1300, 0, -52, 800, 4915, 13411, 1424 >>,
     << 1, -106, 6232, 8537, 11735, 1267, 0, -52, 8741, 2388, 9096, 1432 >>,
     << 0, -110, 6500, 504, 2728, 1476, 0, -52, 10611, 4402, 5469, 1440 >>,
     << 1, -106, 8744, 15736, 16123, 1260, 0, -52, 15309, 6652, 2534, 1448 >>,
     << 1, -109, 14722, 7378, 10968, 1668, 0, -52, 6847, 5167, 295, 1456 >>,
     << 1, -109, 10734, 8630, 16123, 1241, 0, -52, 6703, 12692, 15139, 1463 >>,
     << 1, -107, 2129, 4994, 981, 1079, 0, -52, 5252, 9542, 14303, 1471 >>,
     << 1, -108, 16079, 14696, 13895, 1543, 0, -52, 8052, 9137, 14174, 1479 >>,
     << 1, -107, 15792, 557, 9388, 1467, 0, -52, 372, 8854, 14756, 1487 >>,
     << 1, -107, 9866, 14679, 4897, 1414, 0, -52, 10185, 6409, 16053, 1495 >>,
     << 0, -106, 5331, 14375, 3253, 1063, 0, -52, 7487, 16249, 1684, 1504 >>,
     << 1, -108, 9501, 9526, 11723, 1740, 0, -52, 391, 4012, 4423, 1512 >>,
     << 0, -106, 107, 4511, 4053, 1339, 0, -52, 306, 1219, 7888, 1520 >>,
     << 0, -109, 11349, 12121, 15898, 1402, 0, -52, 3682, 6973, 12083, 1528 >>,
     << 1, -107, 3906, 16079, 7250, 1576, 0, -52, 6674, 4344, 629, 1537 >>,
     << 1, -106, 14132, 1260, 7023, 1242, 0, -52, 3603, 9523, 6297, 1545 >>,
     << 1, -107, 16158, 10343, 10307, 1047, 0, -52, 1965, 6287, 12708, 1553 >>,
     << 1, -106, 5998, 8649, 1293, 1333, 0, -52, 4845, 11538, 3481, 1562 >>,
     << 0, -106, 2560, 11322, 5749, 1067, 0, -52, 9881, 9769, 11389, 1570 >>,
     << 0, -107, 10932, 1987, 13052, 1901, 0, -52, 8411, 2218, 3668, 1579 >>,
     << 1, -109, 10239, 13079, 9737, 1389, 0, -52, 1164, 6869, 13089, 1587 >>,
     << 0, -108, 8004, 10189, 10293, 1789, 0, -52, 14134, 9301, 6889, 1596 >>,
     << 1, -106, 15747, 7288, 4602, 1218, 0, -52, 16326, 11847, 1456, 1605 >>,
     << 1, -110, 7721, 11696, 7048, 1898, 0, -52, 1509, 823, 13179, 1613 >>,
     << 1, -109, 14681, 12866, 16279, 1800, 0, -52, 4623, 12065, 9292, 1622 >>,
     << 1, -106, 14762, 3027, 13362, 1168, 0, -52, 3664, 16249, 6185, 1631 >>,
     << 1, -107, 3659, 7578, 9933, 1394, 0, -52, 1978, 808, 3863, 1640 >>,
     << 0, -108, 3623, 11847, 16322, 1131, 0, -52, 12432, 2703, 2328, 1649 >>,
     << 0, -109, 13243, 1065, 9054, 1908, 0, -52, 8995, 10124, 1585, 1658 >>,
     << 1, -107, 8803, 2440, 4162, 1521, 0, -52, 9573, 11639, 1639, 1667 >>,
     << 0, -107, 12757, 3976, 2158, 1735, 0, -52, 11571, 12584, 2494, 1676 >>,
     << 1, -106, 15125, 3826, 15645, 1134, 0, -52, 9565, 2296, 4155, 1685 >>,
     << 0, -106, 12754, 13240, 793, 1075, 0, -52, 13144, 3266, 6625, 1694 >>,
     << 0, -107, 6835, 14797, 6214, 1306, 0, -52, 15807, 5607, 9909, 1703 >>,
     << 1, -107, 7604, 7738, 15577, 1207, 0, -52, 13178, 16207, 14011, 1712 >>,
     << 0, -107, 13191, 2860, 10105, 1798, 0, -52, 5037, 9579, 2553, 1722 >>,
     << 1, -106, 6650, 11079, 14580, 1054, 0, -52, 13926, 9782, 8306, 1731 >>,
     << 1, -110, 11962, 7026, 15765, 1392, 0, -52, 5627, 8508, 14891, 1740 >>,
     << 1, -106, 13888, 13979, 227, 1065, 0, -52, 6458, 14229, 5928, 1750 >>,
     << 1, -109, 4916, 8886, 12099, 1589, 0, -52, 7751, 3053, 14191, 1759 >>,
     << 1, -106, 2613, 11618, 11814, 1147, 0, -52, 1610, 644, 6915, 1769 >>,
     << 0, -108, 7629, 10623, 15728, 1343, 0, -52, 466, 303, 489, 1779 >>,
     << 1, -106, 6316, 10826, 8127, 1135, 0, -52, 7689, 12124, 11301, 1788 >>,
     << 0, -108, 3251, 700, 10979, 1243, 0, -52, 4764, 13845, 6589, 1798 >>,
     << 0, -107, 15764, 12927, 13093, 1976, 0, -52, 4218, 16383, 2741, 1808 >>,
     << 0, -107, 6572, 1061, 2301, 1336, 0, -52, 4427, 14687, 16146, 1817 >>,
     << 0, -109, 6759, 8504, 6899, 1267, 0, -52, 10165, 4123, 14041, 1827 >>,
     << 0, -109, 6504, 12872, 12998, 1498, 0, -52, 4201, 13246, 12813, 1837 >>,
     << 1, -107, 13778, 3890, 8584, 1058, 0, -52, 1018, 5495, 12469, 1847 >>,
     << 1, -107, 14959, 16383, 5587, 2027, 0, -52, 2428, 10270, 13012, 1857 >>,
     << 1, -106, 10569, 8662, 6883, 1027, 0, -52, 2546, 8246, 14448, 1867 >>,
     << 0, -108, 1959, 6388, 14426, 1320, 0, -52, 9351, 13294, 397, 1878 >>,
     << 1, -107, 8719, 256, 6626, 1188, 0, -52, 920, 6950, 3633, 1888 >>,
     << 0, -107, 4780, 5894, 9485, 1942, 0, -52, 12933, 3948, 7776, 1898 >>,
     << 0, -107, 11083, 12293, 9626, 1294, 0, -52, 13408, 3078, 12831, 1908 >>,
     << 1, -107, 15903, 7888, 4624, 1205, 0, -52, 7007, 3566, 2419, 1919 >>,
     << 1, -107, 3529, 11548, 11155, 1610, 0, -52, 8489, 5078, 9313, 1929 >>,
     << 0, -108, 2259, 234, 8262, 1325, 0, -52, 16374, 7724, 750, 1940 >>,
     << 0, -107, 12913, 1653, 7877, 1265, 0, -52, 3203, 12061, 9503, 1950 >>,
     << 1, -107, 4592, 16206, 12584, 2045, 0, -52, 4314, 2706, 2810, 1961 >>,
     << 1, -107, 13437, 2189, 10638, 1899, 0, -52, 10225, 13881, 13442, 1971 >>,
     << 0, -107, 8200, 1704, 15300, 1968, 0, -52, 6695, 14725, 8638, 1982 >>,
     << 0, -107, 11058, 3751, 14668, 1290, 0, -52, 14999, 7598, 4787, 1993 >>,
     << 0, -107, 1518, 1862, 2707, 1689, 0, -52, 1344, 11705, 1893, 2004 >>,
     << 1, -107, 9197, 4335, 15278, 1933, 0, -52, 15892, 13938, 16346, 2014 >>,
     << 0, -108, 3485, 13895, 5044, 1506, 0, -52, 4312, 1658, 15384, 2025 >>,
     << 0, -110, 3209, 1411, 7188, 1217, 0, -52, 12785, 11837, 15394, 2036 >> >>

\* log: poly holds A0..A4 for the table path and poly1 B0..B10 for arguments
\* near 1; row i + 1 of the table holds invc and logc for the i-th subinterval of
\* [0.6875, 1.375): invc is near 1/c and logc near log(c) for its centre c.
log_data ==
  [ln2hi |-> [s |-> 0, m |-> << 14336, 15336, 9263, 1419 >>, e |-> -53],
   ln2lo |-> [s |-> 0, m |-> << 10032, 3869, 13689, 1980 >>, e |-> -97],
   poly |-> << [s |-> 1, m |-> << 1, 0, 0, 1024 >>, e |-> -53],
            [s |-> 0, m |-> << 12379, 5444, 5461, 1365 >>, e |-> -54],
            [s |-> 1, m |-> << 1424, 16301, 16383, 2047 >>, e |-> -55],
            [s |-> 0, m |-> << 273, 5060, 6962, 1638 >>, e |-> -55],
            [s |-> 1, m |-> << 2207, 5147, 5982, 1365 >>, e |-> -55] >>,
   poly1 |-> << [s |-> 1, m |-> << 0, 0, 0, 1024 >>, e |-> -53],
             [s |-> 0, m |-> << 5495, 5461, 5461, 1365 >>, e |-> -54],
             [s |-> 1, m |-> << 15819, 16383, 16383, 2047 >>, e |-> -55],
             [s |-> 0, m |-> << 7436, 9815, 6553, 1638 >>, e |-> -55],
             [s |-> 1, m |-> << 1447, 5533, 5461, 1365 >>, e |-> -55],
             [s |-> 0, m |-> << 7728, 3347, 4682, 1170 >>, e |-> -55],
             [s |-> 1, m |-> << 15717, 4360, 16378, 2047 >>, e |-> -56],
             [s |-> 0, m |-> << 5834, 8363, 6210, 1820 >>, e |-> -56],
             [s |-> 1, m |-> << 10495, 3777, 7860, 1638 >>, e |-> -56],
             [s |-> 0, m |-> << 4229, 7871, 6191, 1504 >>, e |-> -56],
             [s |-> 1, m |-> << 1485, 5957, 8503, 1364 >>, e |-> -56] >> ]

log_data_tab ==
  << << 0, -52, 7839, 3971, 3852, 1485, 1, -54, 4096, 10138, 2039, 1523 >>,
     << 0, -52, 10527, 10419, 14214, 1476, 1, -54, 0, 2100, 16108, 1499 >>,
     << 0, -52, 13728, 9194, 9728, 1468, 1, -54, 8192, 3399, 15921, 1476 >>,
     << 0, -52, 3197, 15438, 6753, 1460, 1, -54, 14336, 8353, 1459, 1454 >>,
     << 0, -52, 13521, 12054, 5264, 1452, 1, -54, 14336, 513, 5465, 1431 >>,
     << 0, -52, 3258, 3260, 5235, 1444, 1, -54, 0, 6240, 11527, 1408 >>,
     << 0, -52, 547, 8329, 6641, 1436, 1, -54, 4096, 6722, 3240, 1386 >>,
     << 0, -52, 7897, 9876, 9465, 1428, 1, -54, 4096, 6157, 13365, 1363 >>,
     << 0, -52, 9412, 10812, 13674, 1420, 1, -54, 0, 3501, 9084, 1341 >>,
     << 0, -52, 7188, 11895, 2870, 1413, 1, -54, 4096, 13985, 6783, 1319 >>,
     << 0, -52, 7244, 2841, 9797, 1405, 1, -54, 10240, 9766, 6435, 1297 >>,
     << 0, -52, 11343, 5700, 1659, 1398, 1, -54, 14336, 9922, 8003, 1275 >>,
     << 0, -52, 4318, 11630, 11212, 1390, 1, -54, 12288, 4669, 11492, 1253 >>,
     << 0, -52, 6776, 2916, 5663, 1383, 1, -54, 8192, 7926, 481, 1232 >>,
     << 0, -52, 5767, 2329, 1377, 1376, 1, -54, 0, 15642, 7726, 1210 >>,
     << 0, -52, 11219, 15261, 14716, 1368, 1, -54, 8192, 8387, 435, 1189 >>,
     << 0, -52, 16275, 2717, 12894, 1361, 1, -54, 2048, 13162, 11352, 1167 >>,
     << 0, -52, 1411, 2073, 12276, 1354, 1, -54, 4096, 9374, 7698, 1146 >>,
     << 0, -52, 15839, 11978, 12845, 1347, 1, -54, 14336, 11555, 5842, 1125 >>,
     << 0, -52, 7895, 7379, 14580, 1340, 1, -54, 14336, 10983, 5753, 1104 >>,
     << 0, -52, 10304, 16248, 1084, 1334, 1, -54, 6144, 5054, 7433, 1083 >>,
     << 0, -52, 9160, 482, 5100, 1327, 1, -54, 4096, 9068, 10833, 1062 >>,
     << 0, -52, 9610, 3968, 10236, 1320, 1, -54, 14336, 2446, 15973, 1041 >>,
     << 0, -52, 1076, 4946, 82, 1314, 1, -55, 12288, 5659, 12836, 2042 >>,
     << 0, -52, 11531, 11364, 7393, 1307, 1, -55, 12288, 5214, 13479, 2001 >>,
     << 0, -52, 6228, 3300, 15773, 1300, 1, -55, 12288, 13376, 1091, 1961 >>,
     << 0, -52, 1114, 4818, 8820, 1294, 1, -55, 12288, 5030, 8404, 1920 >>,
     << 0, -52, 14587, 1111, 2900, 1288, 1, -55, 12288, 9695, 2594, 1880 >>,
     << 0, -52, 13489, 10491, 14381, 1281, 1, -55, 4096, 4694, 16, 1840 >>,
     << 0, -52, 16015, 13663, 10485, 1275, 1, -55, 4096, 6692, 661, 1800 >>,
     << 0, -52, 3305, 45, 7578, 1269, 1, -55, 4096, 13828, 4472, 1760 >>,
     << 0, -52, 299, 67, 5644, 1263, 1, -55, 4096, 13135, 11420, 1720 >>,
     << 0, -52, 6840, 11735, 4674, 1257, 1, -55, 4096, 14410, 5122, 1681 >>,
     << 0, -52, 4098, 13951, 4652, 1251, 1, -55, 12288, 8311, 1910, 1642 >>,
     << 0, -52, 14876, 5649, 5564, 1245, 1, -55, 12288, 9504, 1750, 1603 >>,
     << 0, -52, 14050, 9908, 7396, 1239, 1, -55, 0, 6423, 4618, 1564 >>,
     << 0, -52, 5184, 8503, 10137, 1233, 1, -55, 12288, 4176, 10491, 1525 >>,
     << 0, -52, 2852, 15359, 13772, 1227, 1, -55, 12288, 12681, 2947, 1487 >>,
     << 0, -52, 3401, 5764, 1911, 1222, 1, -55, 8192, 11485, 14761, 1448 >>,
     << 0, -52, 14736, 7416, 7299, 1216, 1, -55, 8192, 4830, 13077, 1410 >>,
     << 0, -52, 14401, 11863, 13547, 1210, 1, -55, 12288, 6288, 14295, 1372 >>,
     << 0, -52, 10705, 2150, 4256, 1205, 1, -55, 12288, 16136, 1976, 1335 >>,
     << 0, -52, 15658, 8927, 12186, 1199, 1, -55, 0, 1864, 8901, 1297 >>,
     << 0, -52, 7083, 10288, 4551, 1194, 1, -55, 0, 12812, 2219, 1260 >>,
     << 0, -52, 13616, 82, 14118, 1188, 1, -55, 0, 11556, 14742, 1222 >>,
     << 0, -52, 8693, 7518, 8101, 1183, 1, -55, 0, 657, 13641, 1185 >>,
     << 0, -52, 15295, 11380, 2873, 1178, 1, -55, 8192, 8678, 15263, 1148 >>,
     << 0, -52, 13757, 3647, 14808, 1172, 1, -55, 8192, 5298, 3202, 1112 >>,
     << 0, -52, 2107, 11044, 11130, 1167, 1, -55, 8192, 8156, 10229, 1075 >>,
     << 0, -52, 182, 11941, 8210, 1162, 1, -55, 8192, 10234, 3524, 1039 >>,
     << 0, -52, 306, 6961, 6041, 1157, 1, -56, 0, 12590, 15323, 2005 >>,
     << 0, -52, 15515, 14155, 4609, 1152, 1, -56, 0, 6401, 12425, 1933 >>,
     << 0, -52, 2059, 9525, 3908, 1147, 1, -56, 0, 15333, 14723, 1861 >>,
     << 0, -52, 9577, 2621, 3925, 1142, 1, -56, 8192, 15202, 5748, 1790 >>,
     << 0, -52, 15996, 1373, 4657, 1137, 1, -56, 8192, 189, 1938, 1719 >>,
     << 0, -52, 9961, 4908, 6087, 1132, 1, -56, 0, 7330, 3134, 1648 >>,
     << 0, -52, 6838, 12464, 8208, 1127, 1, -56, 0, 3531, 9323, 1577 >>,
     << 0, -52, 12477, 11993, 11015, 1122, 1, -56, 0, 3760, 4123, 1507 >>,
     << 0, -52, 15542, 6078, 14498, 1117, 1, -56, 0, 5344, 3860, 1437 >>,
     << 0, -52, 12762, 5424, 2259, 1113, 1, -56, 0, 13854, 8422, 1367 >>,
     << 0, -52, 8157, 157, 7065, 1108, 1, -56, 8192, 14983, 1485, 1298 >>,
     << 0, -52, 4684, 4299, 12522, 1103, 1, -56, 8192, 13738, 15764, 1228 >>,
     << 0, -52, 14810, 2115, 2231, 1099, 1, -56, 8192, 8981, 1951, 1160 >>,
     << 0, -52, 13617, 9138, 8962, 1094, 1, -56, 8192, 8584, 9321, 1091 >>,
     << 0, -52, 13487, 10768, 16317, 1089, 1, -57, 0, 11080, 9926, 2046 >>,
     << 0, -52, 11187, 15673, 7904, 1085, 1, -57, 0, 10717, 10452, 1910 >>,
     << 0, -52, 8142, 13482, 101, 1081, 1, -57, 0, 4628, 3790, 1775 >>,
     << 0, -52, 9505, 3250, 9286, 1076, 1, -57, 0, 75, 6292, 1640 >>,
     << 0, -52, 6170, 13194, 2679, 1072, 1, -57, 0, 3083, 1411, 1506 >>,
     << 0, -52, 14033, 3864, 13048, 1067, 1, -57, 0, 8026, 5606, 1372 >>,
     << 0, -52, 4921, 8832, 7609, 1063, 1, -57, 0, 9622, 2212, 1239 >>,
     << 0, -52, 10207, 15691, 2746, 1059, 1, -57, 0, 4181, 7734, 1106 >>,
     << 0, -52, 10491, 15672, 14834, 1054, 1, -58, 0, 2990, 11272, 1948 >>,
     << 0, -52, 3865, 12502, 11096, 1050, 1, -58, 0, 2378, 7957, 1685 >>,
     << 0, -52, 14636, 6067, 7914, 1046, 1, -58, 0, 15878, 5676, 1423 >>,
     << 0, -52, 11408, 14148, 5276, 1042, 1, -58, 0, 12968, 4024, 1162 >>,
     << 0, -52, 11689, 7106, 3180, 1038, 1, -59, 0, 996, 6066, 1804 >>,
     << 0, -52, 12969, 3556, 1617, 1034, 1, -59, 0, 13992, 4949, 1286 >>,
     << 0, -52, 13128, 8105, 578, 1030, 1, -60, 0, 2992, 8252, 1540 >>,
     << 0, -52, 12693, 6226, 64, 1026, 1, -61, 0, 9360, 151, 1025 >>,
     << 0, -53, 14874, 7323, 511, 2040, 0, -61, 0, 4672, 16184, 2043 >>,
     << 0, -53, 10868, 2439, 4556, 2024, 0, -59, 0, 5364, 1043, 1527 >>,
     << 0, -53, 6446, 518, 12555, 2008, 0, -58, 0, 4874, 10812, 1267 >>,
     << 0, -53, 11725, 13242, 8035, 1993, 0, -58, 0, 4644, 15377, 1767 >>,
     << 0, -53, 5095, 3652, 7296, 1978, 0, -57, 0, 14404, 3468, 1132 >>,
     << 0, -53, 12715, 9006, 10247, 1963, 0, -57, 0, 7, 9661, 1378 >>,
     << 0, -53, 3227, 2676, 426, 1949, 0, -57, 0, 866, 2100, 1623 >>,
     << 0, -53, 6581, 3114, 10520, 1934, 0, -57, 0, 15710, 13998, 1865 >>,
     << 0, -53, 6742, 9602, 7680, 1920, 0, -56, 0, 5731, 6542, 1053 >>,
     << 0, -53, 15256, 5598, 8222, 1906, 0, -56, 8192, 3124, 16222, 1172 >>,
     << 0, -53, 4355, 11762, 12064, 1892, 0, -56, 0, 11488, 11736, 1291 >>,
     << 0, -53, 7374, 7149, 2758, 1879, 0, -56, 0, 7519, 9624, 1409 >>,
     << 0, -53, 7837, 10619, 13002, 1865, 0, -56, 0, 5544, 10083, 1526 >>,
     << 0, -53, 11469, 14764, 9955, 1852, 0, -56, 8192, 14449, 13364, 1642 >>,
     << 0, -53, 14594, 2717, 9946, 1839, 0, -56, 8192, 11317, 3195, 1758 >>,
     << 0, -53, 2157, 13532, 12902, 1826, 0, -56, 8192, 2972, 12595, 1872 >>,
     << 0, -53, 6148, 13685, 2379, 1814, 0, -56, 8192, 1913, 8983, 1986 >>,
     << 0, -53, 8076, 3822, 11091, 1801, 0, -55, 0, 11845, 12626, 1049 >>,
     << 0, -53, 10047, 15283, 6206, 1789, 0, -55, 12288, 2634, 14424, 1105 >>,
     << 0, -53, 5825, 5998, 4055, 1777, 0, -55, 12288, 14120, 9964, 1161 >>,
     << 0, -53, 2600, 12825, 4576, 1765, 0, -55, 4096, 6933, 15738, 1216 >>,
     << 0, -53, 15916, 6076, 7724, 1753, 0, -55, 4096, 12492, 15411, 1271 >>,
     << 0, -53, 2187, 7974, 13446, 1741, 0, -55, 0, 11754, 9062, 1326 >>,
     << 0, -53, 12362, 1140, 5298, 1730, 0, -55, 12288, 9031, 13202, 1380 >>,
     << 0, -53, 12158, 6091, 16008, 1718, 0, -55, 12288, 4195, 11474, 1434 >>,
     << 0, -53, 15778, 1408, 12755, 1707, 0, -55, 4096, 12698, 3982, 1488 >>,
     << 0, -53, 6311, 16205, 11875, 1696, 0, -55, 12288, 5227, 7183, 1541 >>,
     << 0, -53, 13195, 15397, 13326, 1685, 0, -55, 0, 5082, 4757, 1594 >>,
     << 0, -53, 2855, 685, 681, 1675, 0, -55, 0, 3041, 13152, 1646 >>,
     << 0, -53, 13009, 3663, 6657, 1664, 0, -55, 0, 12464, 16081, 1698 >>,
     << 0, -53, 15387, 4972, 14834, 1653, 0, -55, 4096, 12295, 13589, 1750 >>,
     << 0, -53, 12688, 5918, 8784, 1643, 0, -55, 0, 13043, 5756, 1802 >>,
     << 0, -53, 3631, 2655, 4847, 1633, 0, -55, 8192, 5409, 9053, 1853 >>,
     << 0, -53, 2933, 14993, 2990, 1623, 0, -55, 0, 4379, 7123, 1904 >>,
     << 0, -53, 2104, 14237, 3177, 1613, 0, -55, 8192, 9023, 27, 1955 >>,
     << 0, -53, 4838, 15773, 5362, 1603, 0, -55, 4096, 94, 4252, 2005 >>,
     << 0, -53, 6045, 15359, 9512, 1593, 0, -54, 14336, 2174, 9921, 1027 >>,
     << 0, -53, 124, 16176, 15593, 1583, 0, -54, 4096, 14927, 7040, 1052 >>,
     << 0, -53, 782, 11003, 7181, 1574, 0, -54, 12288, 14873, 1721, 1077 >>,
     << 0, -53, 6139, 10380, 634, 1565, 0, -54, 4096, 3375, 10355, 1101 >>,
     << 0, -53, 6664, 13006, 12298, 1555, 0, -54, 2048, 7309, 214, 1126 >>,
     << 0, -53, 15957, 8596, 9374, 1546, 0, -54, 0, 818, 4094, 1150 >>,
     << 0, -53, 608, 6096, 8217, 1537, 0, -54, 10240, 7565, 5629, 1174 >>,
     << 0, -53, 9001, 3970, 8790, 1528, 0, -54, 10240, 9298, 4864, 1198 >>,
     << 0, -53, 13741, 8050, 11063, 1519, 0, -54, 8192, 269, 1825, 1222 >>,
     << 0, -53, 9666, 7772, 15014, 1510, 0, -54, 6144, 14256, 12902, 1245 >>,
     << 0, -53, 1623, 2140, 4223, 1502, 0, -54, 12288, 11964, 5375, 1269 >>,
     << 0, -53, 4876, 12120, 11437, 1493, 0, -54, 8192, 3263, 12014, 1292 >> >>

\* the log of pow: poly holds A0..A6; row i + 1 of the table holds invc, logc and
\* logctail (log(c) = logc + logctail) for the i-th subinterval.
pow_log_data ==
  [ln2hi |-> [s |-> 0, m |-> << 14336, 15336, 9263, 1419 >>, e |-> -53],
   ln2lo |-> [s |-> 0, m |-> << 10032, 3869, 13689, 1980 >>, e |-> -97],
   poly |-> << [s |-> 1, m |-> << 0, 0, 0, 1024 >>, e |-> -53],
            [s |-> 1, m |-> << 5472, 5461, 5461, 1365 >>, e |-> -53],
            [s |-> 0, m |-> << 6, 0, 0, 1024 >>, e |-> -53],
            [s |-> 0, m |-> << 5454, 9573, 6553, 1638 >>, e |-> -53],
            [s |-> 1, m |-> << 9338, 5286, 5461, 1365 >>, e |-> -53],
            [s |-> 1, m |-> << 1513, 11553, 5561, 1170 >>, e |-> -52],
            [s |-> 0, m |-> << 16323, 11416, 696, 1024 >>, e |-> -52] >> ]

pow_log_data_tab ==
  << << 0, -52, 0, 0, 0, 1448, 1, -54, 2048, 2791, 2095, 1419, 0, -100, 5760, 8413, 578, 1709 >>,
     << 0, -52, 0, 0, 0, 1440, 1, -54, 2048, 15712, 7131, 1396, 1, -98, 14112, 9091, 4237, 1833 >>,
     << 0, -52, 0, 0, 0, 1432, 1, -54, 6144, 7445, 10097, 1373, 1, -97, 4205, 5849, 10829, 1240 >>,
     << 0, -52, 0, 0, 0, 1424, 1, -54, 14336, 7351, 10968, 1350, 1, -101, 10197, 15041, 3657, 1441 >>,
     << 0, -52, 0, 0, 0, 1416, 1, -54, 14336, 5597, 9721, 1327, 1, -99, 16096, 3236, 13977, 1286 >>,
     << 0, -52, 0, 0, 0, 1408, 1, -54, 8192, 2161, 6332, 1304, 0, -98, 1228, 8498, 756, 1270 >>,
     << 0, -52, 0, 0, 0, 1400, 1, -54, 10240, 6682, 776, 1281, 0, -102, 2874, 13832, 12094, 1808 >>,
     << 0, -52, 0, 0, 0, 1392, 1, -54, 2048, 5541, 9413, 1257, 0, -97, 5216, 6470, 7272, 1068 >>,
     << 0, -52, 0, 0, 0, 1384, 1, -54, 0, 10850, 15833, 1233, 0, -97, 146, 4886, 5341, 1366 >>,
     << 0, -52, 0, 0, 0, 1376, 1, -54, 8192, 11140, 3627, 1210, 0, -97, 11224, 9948, 12777, 1438 >>,
     << 0, -52, 0, 0, 0, 1368, 1, -54, 2048, 3962, 5537, 1186, 0, -98, 12351, 6974, 8523, 1394 >>,
     << 0, -52, 0, 0, 0, 1368, 1, -54, 2048, 3962, 5537, 1186, 0, -98, 12351, 6974, 8523, 1394 >>,
     << 0, -52, 0, 0, 0, 1360, 1, -54, 14336, 12093, 5151, 1162, 1, -98, 6774, 8527, 8770, 1430 >>,
     << 0, -52, 0, 0, 0, 1352, 1, -54, 6144, 1446, 2444, 1138, 1, -98, 5124, 9117, 15302, 2027 >>,
     << 0, -52, 0, 0, 0, 1344, 1, -54, 10240, 11950, 13770, 1113, 0, -98, 10480, 3594, 15459, 1991 >>,
     << 0, -52, 0, 0, 0, 1336, 1, -54, 2048, 9913, 6335, 1089, 1, -97, 6758, 13333, 3151, 1450 >>,
     << 0, -52, 0, 0, 0, 1328, 1, -54, 4096, 2510, 12878, 1064, 1, -99, 782, 15312, 16103, 1818 >>,
     << 0, -52, 0, 0, 0, 1320, 1, -54, 4096, 4819, 601, 1040, 1, -100, 11647, 15312, 11145, 1037 >>,
     << 0, -52, 0, 0, 0, 1320, 1, -54, 4096, 4819, 601, 1040, 1, -100, 11647, 15312, 11145, 1037 >>,
     << 0, -52, 0, 0, 0, 1312, 1, -55, 0, 13689, 4486, 2030, 0, -99, 15495, 11876, 12970, 1877 >>,
     << 0, -52, 0, 0, 0, 1304, 1, -55, 8192, 12145, 2780, 1980, 0, -97, 12068, 12826, 11129, 1737 >>,
     << 0, -52, 0, 0, 0, 1296, 1, -55, 12288, 14507, 12406, 1929, 1, -98, 16144, 4351, 13557, 1483 >>,
     << 0, -52, 0, 0, 0, 1288, 1, -55, 0, 11583, 534, 1879, 0, -97, 10267, 12073, 10523, 1134 >>,
     << 0, -52, 0, 0, 0, 1280, 1, -55, 8192, 7786, 16252, 1827, 0, -97, 1076, 8830, 5366, 1502 >>,
     << 0, -52, 0, 0, 0, 1280, 1, -55, 8192, 7786, 16252, 1827, 0, -97, 1076, 8830, 5366, 1502 >>,
     << 0, -52, 0, 0, 0, 1272, 1, -55, 4096, 4278, 10343, 1776, 0, -98, 14223, 1582, 11011, 1619 >>,
     << 0, -52, 0, 0, 0, 1264, 1, -55, 0, 14851, 15508, 1724, 0, -104, 4198, 16182, 9779, 1683 >>,
     << 0, -52, 0, 0, 0, 1256, 1, -55, 12288, 16266, 15297, 1672, 1, -97, 490, 12571, 1613, 1379 >>,
     << 0, -52, 0, 0, 0, 1256, 1, -55, 12288, 16266, 15297, 1672, 1, -97, 490, 12571, 1613, 1379 >>,
     << 0, -52, 0, 0, 0, 1248, 1, -55, 4096, 13265, 9641, 1620, 1, -97, 5347, 4871, 7568, 1716 >>,
     << 0, -52, 0, 0, 0, 1240, 1, -55, 4096, 5251, 14854, 1567, 0, -97, 14857, 16239, 7159, 1775 >>,
     << 0, -52, 0, 0, 0, 1232, 1, -55, 8192, 2115, 14480, 1514, 0, -97, 2648, 2381, 14599, 1782 >>,
     << 0, -52, 0, 0, 0, 1232, 1, -55, 8192, 2115, 14480, 1514, 0, -97, 2648, 2381, 14599, 1782 >>,
     << 0, -52, 0, 0, 0, 1224, 1, -55, 4096, 7271, 8446, 1461, 1, -98, 8806, 3787, 1706, 1081 >>,
     << 0, -52, 0, 0, 0, 1216, 1, -55, 4096, 670, 13063, 1407, 1, -98, 4153, 15425, 9273, 1959 >>,
     << 0, -52, 0, 0, 0, 1216, 1, -55, 4096, 670, 13063, 1407, 1, -98, 4153, 15425, 9273, 1959 >>,
     << 0, -52, 0, 0, 0, 1208, 1, -55, 12288, 3718, 11870, 1353, 1, -97, 7055, 29, 10425, 1079 >>,
     << 0, -52, 0, 0, 0, 1200, 1, -55, 0, 13102, 4790, 1299, 0, -98, 14396, 1237, 3094, 1475 >>,
     << 0, -52, 0, 0, 0, 1200, 1, -55, 0, 13102, 4790, 1299, 0, -98, 14396, 1237, 3094, 1475 >>,
     << 0, -52, 0, 0, 0, 1192, 1, -55, 4096, 122, 8130, 1244, 0, -100, 5178, 13469, 2148, 1118 >>,
     << 0, -52, 0, 0, 0, 1184, 1, -55, 12288, 8319, 5423, 1189, 1, -97, 1032, 7623, 4865, 1315 >>,
     << 0, -52, 0, 0, 0, 1176, 1, -55, 8192, 5309, 12973, 1133, 1, -97, 9110, 8262, 2625, 1952 >>,
     << 0, -52, 0, 0, 0, 1176, 1, -55, 8192, 5309, 12973, 1133, 1, -97, 9110, 8262, 2625, 1952 >>,
     << 0, -52, 0, 0, 0, 1168, 1, -55, 4096, 13122, 14311, 1077, 0, -99, 7156, 9121, 6504, 1690 >>,
     << 0, -52, 0, 0, 0, 1168, 1, -55, 4096, 13122, 14311, 1077, 0, -99, 7156, 9121, 6504, 1690 >>,
     << 0, -52, 0, 0, 0, 1160, 1, -56, 8192, 1903, 2323, 2043, 1, -97, 13298, 12940, 5445, 1373 >>,
     << 0, -52, 0, 0, 0, 1152, 1, -56, 0, 14508, 12406, 1929, 0, -97, 60, 11200, 706, 1677 >>,
     << 0, -52, 0, 0, 0, 1152, 1, -56, 0, 14508, 12406, 1929, 0, -97, 60, 11200, 706, 1677 >>,
     << 0, -52, 0, 0, 0, 1144, 1, -56, 0, 15727, 9544, 1815, 1, -98, 15878, 8574, 1397, 1859 >>,
     << 0, -52, 0, 0, 0, 1136, 1, -56, 8192, 10539, 9939, 1700, 0, -97, 10952, 8558, 4958, 1358 >>,
     << 0, -52, 0, 0, 0, 1136, 1, -56, 8192, 10539, 9939, 1700, 0, -97, 10952, 8558, 4958, 1358 >>,
     << 0, -52, 0, 0, 0, 1128, 1, -56, 8192, 6342, 13405, 1584, 0, -98, 5736, 13501, 660, 1247 >>,
     << 0, -52, 0, 0, 0, 1128, 1, -56, 8192, 6342, 13405, 1584, 0, -98, 5736, 13501, 660, 1247 >>,
     << 0, -52, 0, 0, 0, 1120, 1, -56, 8192, 11157, 3368, 1468, 1, -97, 13274, 9421, 13180, 1445 >>,
     << 0, -52, 0, 0, 0, 1112, 1, -56, 8192, 15384, 12403, 1350, 0, -98, 7767, 1817, 9654, 1984 >>,
     << 0, -52, 0, 0, 0, 1112, 1, -56, 8192, 15384, 12403, 1350, 0, -98, 7767, 1817, 9654, 1984 >>,
     << 0, -52, 0, 0, 0, 1104, 1, -56, 8192, 6255, 7545, 1232, 0, -97, 5087, 13284, 11692, 1815 >>,
     << 0, -52, 0, 0, 0, 1104, 1, -56, 8192, 6255, 7545, 1232, 0, -97, 5087, 13284, 11692, 1815 >>,
     << 0, -52, 0, 0, 0, 1096, 1, -56, 0, 14990, 4974, 1113, 0, -98, 8969, 6718, 1511, 1311 >>,
     << 0, -52, 0, 0, 0, 1088, 1, -57, 0, 70, 8972, 1986, 0, -97, 3729, 3290, 6632, 1878 >>,
     << 0, -52, 0, 0, 0, 1088, 1, -57, 0, 70, 8972, 1986, 0, -97, 3729, 3290, 6632, 1878 >>,
     << 0, -52, 0, 0, 0, 1080, 1, -57, 0, 1126, 11735, 1744, 0, -98, 12364, 5977, 10158, 1824 >>,
     << 0, -52, 0, 0, 0, 1080, 1, -57, 0, 1126, 11735, 1744, 0, -98, 12364, 5977, 10158, 1824 >>,
     << 0, -52, 0, 0, 0, 1072, 1, -57, 0, 6347, 1423, 1501, 1, -97, 8686, 5066, 1123, 1855 >>,
     << 0, -52, 0, 0, 0, 1072, 1, -57, 0, 6347, 1423, 1501, 1, -97, 8686, 5066, 1123, 1855 >>,
     << 0, -52, 0, 0, 0, 1064, 1, -57, 0, 10235, 10363, 1255, 0, -100, 16042, 5275, 11135, 1344 >>,
     << 0, -52, 0, 0, 0, 1064, 1, -57, 0, 10235, 10363, 1255, 0, -100, 16042, 5275, 11135, 1344 >>,
     << 0, -52, 0, 0, 0, 1056, 1, -58, 0, 14816, 10672, 2016, 1, -97, 2532, 12792, 615, 1632 >>,
     << 0, -52, 0, 0, 0, 1056, 1, -58, 0, 14816, 10672, 2016, 1, -97, 2532, 12792, 615, 1632 >>,
     << 0, -52, 0, 0, 0, 1048, 1, -58, 0, 8022, 4528, 1518, 1, -97, 9785, 4074, 5449, 1571 >>,
     << 0, -52, 0, 0, 0, 1040, 1, -59, 0, 1008, 2699, 2032, 1, -102, 9884, 6990, 10191, 1991 >>,
     << 0, -52, 0, 0, 0, 1040, 1, -59, 0, 1008, 2699, 2032, 1, -102, 9884, 6990, 10191, 1991 >>,
     << 0, -52, 0, 0, 0, 1032, 1, -60, 0, 11328, 678, 2040, 1, -98, 228, 14185, 9200, 1656 >>,
     << 0, -52, 0, 0, 0, 1032, 1, -60, 0, 11328, 678, 2040, 1, -98, 228, 14185, 9200, 1656 >>,
     << 0, -52, 0, 0, 0, 1024, 0, 0, 0, 0, 0, 0, 0, 0, 0, 0, 0, 0 >>,
     << 0, -52, 0, 0, 0, 1024, 0, 0, 0, 0, 0, 0, 0, 0, 0, 0, 0, 0 >>,
     << 0, -53, 0, 0, 0, 2032, 0, -59, 0, 5668, 343, 1028, 1, -98, 11240, 9844, 14009, 1073 >>,
     << 0, -53, 0, 0, 0, 2016, 0, -58, 0, 8782, 1381, 1032, 1, -97, 14290, 7051, 1456, 1271 >>,
     << 0, -53, 0, 0, 0, 2000, 0, -58, 0, 8996, 4690, 1554, 1, -97, 3124, 2408, 2979, 1704 >>,
     << 0, -53, 0, 0, 0, 1984, 0, -57, 0, 10141, 5592, 1040, 0, -99, 5971, 13255, 7173, 1092 >>,
     << 0, -53, 0, 0, 0, 1968, 0, -57, 0, 4280, 10989, 1305, 1, -97, 15656, 5879, 10039, 1797 >>,
     << 0, -53, 0, 0, 0, 1952, 0, -57, 0, 4735, 2721, 1573, 1, -98, 9853, 360, 6493, 1630 >>,
     << 0, -53, 0, 0, 0, 1936, 0, -57, 0, 14199, 14140, 1842, 1, -98, 10247, 8032, 3876, 1690 >>,
     << 0, -53, 0, 0, 0, 1928, 0, -57, 0, 27, 8988, 1978, 1, -99, 15227, 16164, 5092, 1924 >>,
     << 0, -53, 0, 0, 0, 1912, 0, -56, 8192, 1305, 13245, 1125, 1, -97, 7835, 6198, 9685, 1356 >>,
     << 0, -53, 0, 0, 0, 1896, 0, -56, 8192, 8007, 8026, 1263, 0, -97, 3799, 5997, 1514, 1842 >>,
     << 0, -53, 0, 0, 0, 1880, 0, -56, 8192, 13918, 5540, 1402, 1, -97, 7454, 12660, 4195, 1818 >>,
     << 0, -53, 0, 0, 0, 1872, 0, -56, 0, 11179, 3376, 1472, 0, -101, 11570, 9847, 10458, 1799 >>,
     << 0, -53, 0, 0, 0, 1856, 0, -56, 0, 13669, 13797, 1612, 0, -97, 2010, 10997, 5571, 1220 >>,
     << 0, -53, 0, 0, 0, 1840, 0, -56, 8192, 14005, 11400, 1754, 1, -98, 10469, 12253, 2050, 1252 >>,
     << 0, -53, 0, 0, 0, 1832, 0, -56, 0, 1777, 1408, 1826, 0, -97, 11475, 6506, 11548, 1425 >>,
     << 0, -53, 0, 0, 0, 1816, 0, -56, 8192, 3112, 13208, 1969, 1, -97, 1504, 16281, 1674, 1904 >>,
     << 0, -53, 0, 0, 0, 1808, 0, -56, 8192, 10095, 2323, 2042, 1, -97, 2813, 16004, 3428, 1357 >>,
     << 0, -53, 0, 0, 0, 1792, 0, -55, 8192, 2207, 14568, 1093, 0, -97, 2034, 14516, 14220, 1147 >>,
     << 0, -53, 0, 0, 0, 1784, 0, -55, 12288, 14479, 8887, 1130, 0, -97, 6452, 4322, 14564, 1833 >>,
     << 0, -53, 0, 0, 0, 1768, 0, -55, 0, 12826, 5648, 1204, 0, -99, 13473, 11782, 5836, 1255 >>,
     << 0, -53, 0, 0, 0, 1760, 0, -55, 4096, 86, 8139, 1241, 0, -103, 12937, 3373, 14978, 1419 >>,
     << 0, -53, 0, 0, 0, 1744, 0, -55, 12288, 3278, 5080, 1316, 0, -97, 13944, 5110, 14229, 1376 >>,
     << 0, -53, 0, 0, 0, 1736, 0, -55, 12288, 4742, 15966, 1353, 0, -97, 15815, 5541, 16014, 1420 >>,
     << 0, -53, 0, 0, 0, 1720, 0, -55, 4096, 14896, 13547, 1429, 0, -98, 11896, 12528, 14514, 1651 >>,
     << 0, -53, 0, 0, 0, 1712, 0, -55, 12288, 11733, 296, 1468, 1, -97, 8673, 5744, 6366, 1348 >>,
     << 0, -53, 0, 0, 0, 1704, 0, -55, 4096, 5393, 6360, 1506, 1, -98, 773, 581, 8455, 1817 >>,
     << 0, -53, 0, 0, 0, 1688, 0, -55, 0, 11492, 11006, 1583, 1, -99, 11473, 11172, 5450, 1487 >>,
     << 0, -53, 0, 0, 0, 1680, 0, -55, 0, 13276, 9645, 1622, 0, -99, 16239, 8835, 8837, 1532 >>,
     << 0, -53, 0, 0, 0, 1664, 0, -55, 8192, 12843, 16083, 1700, 1, -97, 8553, 344, 9269, 1564 >>,
     << 0, -53, 0, 0, 0, 1656, 0, -55, 4096, 7535, 7557, 1740, 1, -99, 8618, 15027, 6356, 1805 >>,
     << 0, -53, 0, 0, 0, 1648, 0, -55, 8192, 8431, 2163, 1780, 1, -97, 4790, 9552, 15429, 1874 >>,
     << 0, -53, 0, 0, 0, 1640, 0, -55, 4096, 7104, 16316, 1819, 1, -100, 11218, 5720, 1836, 1147 >>,
     << 0, -53, 0, 0, 0, 1624, 0, -55, 4096, 850, 5083, 1900, 1, -97, 12341, 7254, 12975, 1727 >>,
     << 0, -53, 0, 0, 0, 1616, 0, -55, 4096, 16284, 12527, 1940, 0, -103, 13360, 263, 8822, 1156 >>,
     << 0, -53, 0, 0, 0, 1608, 0, -55, 0, 4980, 6878, 1981, 1, -103, 3601, 5870, 4438, 1672 >>,
     << 0, -53, 0, 0, 0, 1600, 0, -55, 12288, 13006, 4550, 2022, 0, -98, 7984, 10291, 16076, 1778 >>,
     << 0, -53, 0, 0, 0, 1584, 0, -54, 6144, 309, 4998, 1052, 0, -100, 3729, 7093, 3505, 1575 >>,
     << 0, -53, 0, 0, 0, 1576, 0, -54, 8192, 7557, 726, 1073, 0, -97, 10985, 6387, 2225, 1478 >>,
     << 0, -53, 0, 0, 0, 1568, 0, -54, 10240, 2207, 14568, 1093, 1, -97, 12316, 3735, 4326, 1800 >>,
     << 0, -53, 0, 0, 0, 1560, 0, -54, 14336, 11955, 13772, 1114, 0, -97, 5761, 7828, 11487, 1766 >>,
     << 0, -53, 0, 0, 0, 1552, 0, -54, 10240, 3433, 14742, 1135, 0, -97, 15799, 1310, 11989, 1833 >>,
     << 0, -53, 0, 0, 0, 1544, 0, -54, 14336, 13370, 1110, 1157, 0, -99, 15082, 10522, 15851, 1697 >>,
     << 0, -53, 0, 0, 0, 1528, 0, -54, 4096, 13170, 12039, 1199, 0, -97, 1268, 10560, 4004, 1703 >>,
     << 0, -53, 0, 0, 0, 1520, 0, -54, 8192, 1869, 3870, 1221, 1, -97, 15544, 3204, 10157, 1592 >>,
     << 0, -53, 0, 0, 0, 1512, 0, -54, 4096, 6904, 13943, 1242, 0, -98, 14280, 965, 11483, 1115 >>,
     << 0, -53, 0, 0, 0, 1504, 0, -54, 12288, 7372, 9511, 1264, 0, -98, 15708, 6170, 13643, 1550 >>,
     << 0, -53, 0, 0, 0, 1496, 0, -54, 10240, 3927, 6978, 1286, 0, -99, 8349, 12867, 878, 1593 >>,
     << 0, -53, 0, 0, 0, 1488, 0, -54, 2048, 2503, 6364, 1308, 1, -97, 5749, 9631, 15584, 1993 >>,
     << 0, -53, 0, 0, 0, 1480, 0, -54, 12288, 14428, 7689, 1330, 1, -97, 6308, 11307, 2193, 1928 >>,
     << 0, -53, 0, 0, 0, 1472, 0, -54, 8192, 7394, 10976, 1352, 0, -97, 1881, 1427, 9992, 1967 >>,
     << 0, -53, 0, 0, 0, 1464, 0, -54, 4096, 3875, 16245, 1374, 0, -98, 239, 14709, 7902, 2027 >>,
     << 0, -53, 0, 0, 0, 1456, 0, -54, 8192, 15717, 7133, 1397, 1, -99, 9692, 8849, 12960, 1666 >> >>

\* |x| lies in [2^Top(x), 2^(Top(x) + 1)) for x # 0
Top(x) == x.e + Prec - 1

\* kd, the integer nearest to x * N/ln2 (as a float), found by adding and
\* subtracting 1.5 * 2^52
ExpKd(x) == FSub(FFma(x, exp_data.invln2N, exp_data.shift), exp_data.shift)

\* r = x - kd * ln2/N, ln2/N in two parts
ExpR(x, kd) == FFma(kd, exp_data.negln2loN, FFma(kd, exp_data.negln2hiN, x))

\* tail + r + r^2 * (C2 + r * C3) + r^4 * (C4 + r * C5)
ExpTmp(r, r2, tail) ==
  FFma(FMul(r2, r2), FFma(r, exp_data.poly[4], exp_data.poly[3]),
       FFma(FFma(r, exp_data.poly[2], exp_data.poly[1]), r2, FAdd(r, tail)))

\* 2^(k/N) without its tail, times 2^up; row is the table's row for k
ExpScale(row, k, up) == [B64(row, 7) EXCEPT !.e = @ + (k \div 128) + up]

\* y * 2^-1022, rounded where it is subnormal
ExpDown(y) == IF IsZero(y) THEN FZero ELSE FRound(y.s, y.m, y.e - 1022)

\* the result is rounded once more when it is scaled down into the
\* subnormals; hi + lo holds 1 + y to twice the precision so that this second
\* rounding falls as one rounding of the exact value would
ExpAdjust(scale, st, y, one) ==
  LET lo == FAdd(FSub(scale, y), st)
      hi == FAdd(one, y)
  IN ExpDown(FSub(FAdd(hi, FAdd(FAdd(FSub(one, hi), y), lo)), one))

\* scale + scale * tmp for |x| >= 512 and k < 0, on the scale raised by 2^1022
ExpSmallOf(scale, st, y) ==
  IF FLt(FAbs(y), One)
  THEN ExpAdjust(scale, st, y, IF FLt(y, FZero) THEN MinusOne ELSE One)
  ELSE ExpDown(y)

ExpSmall(scale, st) == ExpSmallOf(scale, st, FAdd(scale, st))

\* scale + scale * tmp; special for 512 <= |x| < 1024, where a k < 0 can give
\* a subnormal and the sum is formed on the scale raised by 2^1022
ExpEnd(scale, tmp, low) ==
  IF low THEN ExpSmall([scale EXCEPT !.e = @ + 1022], FMul([scale EXCEPT !.e = @ + 1022], tmp))
  ELSE Finite(FFma(scale, tmp, scale))

ExpRow(row, k, r, special) ==
  ExpEnd(ExpScale(row, k, 0), ExpTmp(r, FMul(r, r), B64(row, 1)), special /\ k < 0)

\* exp of k * ln2/N + r
ExpCore(k, r, special) == ExpRow(exp_data_tab[(k % 128) + 1], k, r, special)

ExpOf(x, kd) == ExpCore(RoundScaled(kd, 1), ExpR(x, kd), Top(x) = 9)

\* math.exp(x)
Exp(x) ==
  IF IsZero(x) \/ Top(x) < -54 THEN FAdd(One, x)
  ELSE IF Top(x) >= 10 THEN (IF x.s = 1 THEN FZero ELSE "OverflowError")
  ELSE Only({ ExpOf(x, kd) : kd \in { ExpKd(x) } })

\* v > 0 is z * 2^k with z in an interval [c, 2c) that begins off / 2^52 above
\* a power of two, c being 0.6875 for log: k, z and the index i of the
\* subinterval of z among N = 128, read from the leading bits of v
Split(v, off) ==
  LET top == BigToInt(BigShr(BigSub(v.m, off), 45))
  IN [k |-> v.e + 52 + (top \div 128),
      i |-> top % 128,
      z |-> [s |-> 0, m |-> v.m, e |-> (0 - 52) - (top \div 128)]]

\* log(1 + r) for 1 + r in [0.9375, 1.0647): r - r^2/2 with r split in two
\* parts to keep the square exact, plus r^3 times a polynomial in r
LogNearOf(r, r2, r3, rhi) ==
  LET B == log_data.poly1
      q1 == FFma(r2, B[4], FFma(r, B[3], B[2]))
      q2 == FFma(r2, B[7], FFma(r, B[6], B[5]))
      q3 == FFma(r3, B[11], FFma(r2, B[10], FFma(r, B[9], B[8])))
      q == FFma(FFma(q3, r3, q2), r3, q1)
      rhi2 == FMul(rhi, rhi)
      hi == FFma(rhi2, B[1], r)
      lo == FFma(FMul(B[1], FSub(r, rhi)), FAdd(r, rhi),
                 FFma(rhi2, B[1], FSub(r, hi)))
  IN FAdd(hi, FFma(q, r3, lo))

LogNear(r) ==
  Only({ LogNearOf(r, r2, FMul(r, r2), FFma(FNeg(Split27), r, FFma(r, Split27, r)))
         : r2 \in { FMul(r, r) } })

\* log(z * 2^k) = k * ln2 + log(c) + log(z/c), with r = z * invc - 1 for z/c - 1
LogFarOf(kd, r, r2, w, hi) ==
  LET A == log_data.poly
      lo == FFma(r2, A[1], FFma(kd, log_data.ln2lo, FAdd(FSub(w, hi), r)))
      p == FFma(FFma(r, A[5], A[4]), r2, FFma(r, A[3], A[2]))
  IN FAdd(FFma(FMul(r, r2), p, lo), hi)

LogFarAt(kd, r, w) == LogFarOf(kd, r, FMul(r, r), w, FAdd(r, w))

LogFarRow(kd, z, row) ==
  LogFarAt(kd, FFma(z, B64(row, 1), MinusOne), FFma(kd, log_data.ln2hi, B64(row, 7)))

LogFar(sp) == LogFarRow(FromInt(sp.k), sp.z, log_data_tab[sp.i + 1])

\* math.log(v).  Between 0.9375 and 1 + 0x1.09p-4 log takes the path near 1;
\* elsewhere the intervals begin at the fraction bits 0x6000000000000 (those
\* of 0.6875 * 2)
Log(v) ==
  IF IsZero(v) \/ v.s = 1 THEN "ValueError"
  ELSE IF v = One THEN FZero
  ELSE IF FLe([s |-> 0, m |-> << 0, 0, 0, 1920 >>, e |-> -53], v)
          /\ FLt(v, [s |-> 0, m |-> << 0, 0, 4096, 1090 >>, e |-> -52])
  THEN Only({ LogNear(r) : r \in { FSub(v, One) } })
  ELSE Only({ LogFar(sp) : sp \in { Split(v, << 0, 0, 0, 384 >>) } })

\* log(x) as hi + lo for pow, to about 68 bits
PowLogOf(r, t1, lo1, ar) ==
  LET A == pow_log_data.poly
      t2 == FAdd(r, t1)
      ar2 == FMul(r, ar)
      lo2 == FAdd(FSub(t1, t2), r)
      lo3 == FFma(ar, r, FNeg(ar2))
      hi == FAdd(t2, ar2)
      lo4 == FAdd(FSub(t2, hi), ar2)
      p == FFma(ar2,
                FFma(FFma(r, A[7], A[6]), ar2, FFma(r, A[5], A[4])),
                FFma(r, A[3], A[2]))
      lo == FFma(FMul(r, ar2), p, FAdd(FAdd(FAdd(lo1, lo2), lo3), lo4))
      y == FAdd(hi, lo)
  IN [hi |-> y, lo |-> FAdd(FSub(hi, y), lo)]

PowLogAt(kd, r, row) ==
  PowLogOf(r, FFma(kd, pow_log_data.ln2hi, B64(row, 7)),
           FFma(kd, pow_log_data.ln2lo, B64(row, 13)),
           FMul(r, pow_log_data.poly[1]))

PowLogRow(kd, z, row) ==
  Only({ PowLogAt(kd, r, row) : r \in { FFma(z, B64(row, 1), MinusOne) } })

PowLog(sp) == PowLogRow(FromInt(sp.k), sp.z, pow_log_data_tab[sp.i + 1])

\* exp(ehi + elo)
PowExpOf(ehi, elo, kd) ==
  ExpCore(RoundScaled(kd, 1), FAdd(elo, ExpR(ehi, kd)), Top(ehi) = 9)

PowExp(ehi, elo) ==
  IF IsZero(ehi) \/ Top(ehi) < -54 THEN FAdd(One, ehi)
  ELSE IF Top(ehi) >= 10 THEN (IF ehi.s = 1 THEN FZero ELSE "OverflowError")
  ELSE Only({ PowExpOf(ehi, elo, kd) : kd \in { ExpKd(ehi) } })

\* y * log(x) as ehi + elo
PowOf(y, l, ehi) == PowExp(ehi, FFma(y, l.lo, FFma(l.hi, y, FNeg(ehi))))

PowFrom(y, l) == Only({ PowOf(y, l, ehi) : ehi \in { FMul(y, l.hi) } })

\* pow(x, y) for x > 0, x # 1 and y # 0; the intervals of its log begin at the
\* fraction bits 0x6955500000000
LibmPow(x, y) ==
  IF Top(y) < -65 THEN (IF FLt(One, x) THEN FAdd(One, y) ELSE FSub(One, y))
  ELSE IF Top(y) > 62
  THEN (IF FLt(One, x) = (y.s = 0) THEN "OverflowError" ELSE FZero)
  ELSE Only({ PowFrom(y, l) : l \in { PowLog(Split(x, << 0, 0, 5456, 421 >>)) } })

\* b ** y for b >= 0
Pow(b, y) ==
  IF IsZero(y) THEN One
  ELSE IF IsZero(b) THEN (IF y.s = 1 THEN "ZeroDivisionError" ELSE FZero)
  ELSE IF b = One THEN One
  ELSE LibmPow(b, y)

(***************************************************************************)
(* The catalogs.                                                           *)
(***************************************************************************)
interventions ==
  << [name |-> "Smoking cessation", arr_lifetime |-> 17, arr_5yr |-> 5],
     [name |-> "Antiplatelet (ASA or clopidogrel)", arr_lifetime |-> 6, arr_5yr |-> 2],
     [name |-> "BP control (ACEi/ARB +- CCB)", arr_lifetime |-> 12, arr_5yr |-> 4],
     [name |-> "Semaglutide 2.4 mg", arr_lifetime |-> 4, arr_5yr |-> 1],
     [name |-> "Weight loss to ideal BMI", arr_lifetime |-> 10, arr_5yr |-> 3],
     [name |-> "Empagliflozin", arr_lifetime |-> 6, arr_5yr |-> 2],
     [name |-> "Icosapent ethyl (TG >=1.5)", arr_lifetime |-> 5, arr_5yr |-> 2],
     [name |-> "Mediterranean diet", arr_lifetime |-> 9, arr_5yr |-> 3],
     [name |-> "Physical activity", arr_lifetime |-> 9, arr_5yr |-> 3],
     [name |-> "Alcohol moderation", arr_lifetime |-> 5, arr_5yr |-> 2],
     [name |-> "Stress reduction", arr_lifetime |-> 3, arr_5yr |-> 1] >>

InterventionNames == { interventions[i].name : i \in 1..Len(interventions) }

TherapyNames ==
  { "Atorvastatin 20 mg", "Atorvastatin 80 mg", "Rosuvastatin 10 mg",
    "Rosuvastatin 20-40 mg", "Simvastatin 40 mg", "Ezetimibe",
    "PCSK9 inhibitor", "Bempedoic acid" }

ldl_therapies ==
  [d \in TherapyNames |->
     CASE d = "Atorvastatin 20 mg" -> 40
       [] d = "Atorvastatin 80 mg" -> 50
       [] d = "Rosuvastatin 10 mg" -> 40
       [] d = "Rosuvastatin 20-40 mg" -> 55
       [] d = "Simvastatin 40 mg" -> 35
       [] d = "Ezetimibe" -> 20
       [] d = "PCSK9 inhibitor" -> 60
       [] d = "Bempedoic acid" -> 18]

Range(q) == { q[i] : i \in 1..Len(q) }

Horizons == { "5yr", "10yr", "lifetime" }

caps == [h \in Horizons |-> CASE h = "5yr" -> 80 [] h = "10yr" -> 85 [] h = "lifetime" -> 90]

(***************************************************************************)
(* Values with one decimal (the number inputs, and everything the script   *)
(* passes through round(x, 1)) are held as integers counting tenths:       *)
(* Dec1(t) is the float t/10, the binary64 nearest to that decimal.        *)
(***************************************************************************)
Dec1(t) == Lit(t, 10)

\* round(x, 1), in tenths
Round1(x) == RoundScaled(x, 10)

(***************************************************************************)
(* SMART risk score functions.                                             *)
(***************************************************************************)
\* lp, the terms added from left to right
LinearPredictor(age, sex_val, sbp, total_chol, hdl, smoking_val, diabetes_val, egfr, crp_log, vasc_count) ==
  LET t1 == FMul(Lit(64, 1000), FromInt(age))
      t2 == FAdd(t1, FMul(Lit(34, 100), FromInt(sex_val)))
      t3 == FAdd(t2, FMul(Lit(2, 100), FromInt(sbp)))
      t4 == FAdd(t3, FMul(Lit(25, 100), Dec1(total_chol)))
      t5 == FSub(t4, FMul(Lit(25, 100), Dec1(hdl)))
      t6 == FAdd(t5, FMul(Lit(44, 100), FromInt(smoking_val)))
      t7 == FAdd(t6, FMul(Lit(51, 100), FromInt(diabetes_val)))
      t8 == FSub(t7, FMul(Lit(2, 10), FDivSmall(FromInt(egfr), 10)))
      t9 == FAdd(t8, FMul(Lit(25, 100), crp_log))
  IN FAdd(t9, FMul(Lit(4, 10), FromInt(vasc_count)))

\* risk10 = 1 - 0.900**math.exp(lp - 5.8); return round(risk10 * 100, 1), in
\* tenths
RiskOfLp(lp) ==
  Only({ Only({ Round1(FMul(FSub(One, p), FromInt(100)))
                : p \in { Pow(Lit(900, 1000), ex) } })
         : ex \in { Exp(FSub(lp, Lit(58, 10))) } })

\* the 10-year risk in tenths of a percent; total_chol, hdl and crp in tenths
estimate_smart_risk(age, sex, sbp, total_chol, hdl, smoker, diabetes, egfr, crp, vasc_count) ==
  LET sex_val == IF sex = "Male" THEN 1 ELSE 0
      smoking_val == IF smoker THEN 1 ELSE 0
      diabetes_val == IF diabetes THEN 1 ELSE 0
  IN Only({ Only({ RiskOfLp(lp)
                   : lp \in { LinearPredictor(age, sex_val, sbp, total_chol, hdl,
                                              smoking_val, diabetes_val, egfr, crp_log,
                                              vasc_count) } })
            : crp_log \in { IF crp # 0 THEN Log(FAdd(Dec1(crp), One)) ELSE FZero } })

\* variant: the exponent of the conversion inverted (2 for 0.5)
ConvertWithSquare(r10) ==
  LET p == FDivSmall(Dec1(r10), 100)
  IN Round1(FMul(FSub(One, Pow(FSub(One, p), FromInt(2))), FromInt(100)))

\* the 5-year risk in tenths of a percent, from the 10-year risk in tenths
convert_5yr_from_10yr(r10) ==
  LET p == FDivSmall(Dec1(r10), 100)
  IN Round1(FMul(FSub(One, Pow(FSub(One, p), Lit(5, 10))), FromInt(100)))

(***************************************************************************)
(* The calculations of one run of the script, as functions of the widget   *)
(* values.                                                                 *)
(***************************************************************************)
Hundred == FromInt(100)

\* vasc_count = sum(vasc)
VascCount(v) == Cardinality({ i \in 1..Len(v) : v[i] })

\* baseline_risk, in tenths
BaselineRisk(h, r5, r10) == IF h = "5yr" THEN r5 ELSE r10

\* baseline_risk_capped = min(baseline_risk, caps[horizon]), in tenths
BaselineRiskCapped(b, h) == IF caps[h] * 10 < b THEN caps[h] * 10 ELSE b

\* variant: "=" for "*=" in the loop, so that only the last therapy counts
ApplyPreLastOnly(x, drugs) ==
  IF drugs = << >> THEN x
  ELSE FMul(x, FSub(One, FDivSmall(FromInt(ldl_therapies[drugs[Len(drugs)]]), 100)))

\* for drug in pre_tx: adjusted_ldl *= (1 - ldl_therapies[drug] / 100)
RECURSIVE ApplyPre(_, _)
ApplyPre(x, drugs) ==
  IF drugs = << >> THEN x
  ELSE ApplyPre(FMul(x, FSub(One, FDivSmall(FromInt(ldl_therapies[Head(drugs)]), 100))),
                Tail(drugs))

\* variant: the floor after the pre-admission step left out
AdjustedLdlUnfloored(bl, pre) == ApplyPre(Dec1(bl), pre)

\* adjusted_ldl = max(adjusted_ldl, 1.0)
AdjustedLdl(bl, pre) == FMax(ApplyPre(Dec1(bl), pre), One)

\* for drug in add_tx: final_ldl *= (1 - (ldl_therapies[drug] / 100) * 0.5)
RECURSIVE ApplyAdd(_, _)
ApplyAdd(x, drugs) ==
  IF drugs = << >> THEN x
  ELSE ApplyAdd(FMul(x, FSub(One, FMul(FDivSmall(FromInt(ldl_therapies[Head(drugs)]), 100),
                                       Lit(5, 10)))),
                Tail(drugs))

\* variant: the floor after the add-on step left out
FinalLdlUnfloored(adj, add) == ApplyAdd(adj, add)

\* final_ldl = max(final_ldl, 1.0)
FinalLdl(adj, add) == FMax(ApplyAdd(adj, add), One)

\* variant: the effect size with the wrong sign
EffectSizeNegated(iv, h) == IF h = "5yr" THEN 0 - iv.arr_5yr ELSE 0 - iv.arr_lifetime

\* variant: the lifetime effect size for the lifetime horizon only
EffectSizeFiveYearForTen(iv, h) == IF h = "lifetime" THEN iv.arr_lifetime ELSE iv.arr_5yr

\* the effect size of an intervention for the horizon
EffectSize(iv, h) == IF h = "5yr" THEN iv.arr_5yr ELSE iv.arr_lifetime

\* for iv in interventions: if iv["name"] in ivs: remaining *= (1 - arr / 100)
RECURSIVE ApplyInterventions(_, _, _, _)
ApplyInterventions(rem, i, sel, h) ==
  IF i > Len(interventions) THEN rem
  ELSE ApplyInterventions(
         IF interventions[i].name \in sel
         THEN FMul(rem, FSub(One, FDivSmall(FromInt(EffectSize(interventions[i], h)), 100)))
         ELSE rem,
         i + 1, sel, h)

\* variant: the LDL reduction subtracted from the probability, not a factor
ApplyLdlAbsolute(rem, bl, fl) ==
  IF FLt(fl, Dec1(bl))
  THEN FSub(rem, FDivSmall(FMin(FMul(FromInt(22), FSub(Dec1(bl), fl)), FromInt(35)), 100))
  ELSE rem

\* LDL effect
ApplyLdl(rem, bl, fl) ==
  IF FLt(fl, Dec1(bl))
  THEN LET drop == FSub(Dec1(bl), fl)
           rrr_ldl == FMin(FMul(FromInt(22), drop), FromInt(35))
       IN FMul(rem, FSub(One, FDivSmall(rrr_ldl, 100)))
  ELSE rem

\* variant: the BP factor with the wrong sign
ApplyBpRaising(rem, cur, tgt) ==
  IF tgt < cur
  THEN FMul(rem, FAdd(One, FDivSmall(FMin(FMul(FromInt(15), FDivSmall(FromInt(cur - tgt), 10)),
                                          FromInt(20)), 100)))
  ELSE rem

\* BP effect
ApplyBp(rem, cur, tgt) ==
  IF tgt < cur
  THEN LET rrr_bp == FMin(FMul(FromInt(15), FDivSmall(FromInt(cur - tgt), 10)), FromInt(20))
       IN FMul(rem, FSub(One, FDivSmall(rrr_bp, 100)))
  ELSE rem

\* variant: the HbA1c effect counted from 6.5 (the ADVANCE target), not 7.0
ApplyHba1cFrom65(rem, h1c) ==
  IF FLt(Lit(65, 10), Dec1(h1c))
  THEN FMul(rem, FSub(One, FDivSmall(FMin(FMul(FSub(Dec1(h1c), Lit(65, 10)), FromInt(9)),
                                          FromInt(30)), 100)))
  ELSE rem

\* HbA1c effect
ApplyHba1c(rem, h1c) ==
  IF FLt(FromInt(7), Dec1(h1c))
  THEN LET rrr_hba1c == FMin(FMul(FSub(Dec1(h1c), FromInt(7)), FromInt(9)), FromInt(30))
       IN FMul(rem, FSub(One, FDivSmall(rrr_hba1c, 100)))
  ELSE rem

\* remaining after the four stacking steps, in the order of the script
Remaining(capped, sel, h, bl, fl, cur, tgt, h1c) ==
  ApplyHba1c(
    ApplyBp(
      ApplyLdl(
        ApplyInterventions(FDivSmall(Dec1(capped), 100), 1, sel, h),
        bl, fl),
      cur, tgt),
    h1c)

\* final_risk = round(remaining * 100, 1), in tenths
FinalRisk(rem) == Round1(FMul(rem, Hundred))

\* arr = round(baseline_risk_capped - final_risk, 1), in tenths
Arr(capped, final) == Round1(FSub(Dec1(capped), Dec1(final)))

\* variant: the cap of 75 left out
RrrUncapped(a, capped) ==
  IF capped # 0 THEN Round1(FMul(FDiv(Dec1(a), Dec1(capped)), Hundred)) ELSE 0

\* rrr = round(min(arr / baseline_risk_capped * 100, 75), 1) if
\* baseline_risk_capped else 0, in tenths
Rrr(a, capped) ==
  IF capped # 0
  THEN Round1(FMin(FMul(FDiv(Dec1(a), Dec1(capped)), Hundred), FromInt(75)))
  ELSE 0

(***************************************************************************)
(* State: the sidebar widgets and the values computed by the last run of   *)
(* the script.  total_chol, hdl, crp, baseline_ldl and hba1c, and the      *)
(* rounded results risk10, risk5, baseline_risk, baseline_risk_capped,     *)
(* final_risk, arr and rrr are in tenths; adjusted_ldl, final_ldl and      *)
(* remaining are binary64 values.  pre_tx and add_tx are in the order the  *)
(* user picked the therapies; ivs is the set of ticked interventions (the  *)
(* script walks the catalog in catalog order).  edits counts the widget    *)
(* changes of the session.                                                 *)
(***************************************************************************)
VARIABLES age, sex, smoker, diabetes, egfr, vasc, total_chol, hdl, crp,
          baseline_ldl, hba1c, pre_tx, add_tx, sbp_current, sbp_target, ivs,
          horizon, risk10, risk5, baseline_risk, baseline_risk_capped,
          adjusted_ldl, final_ldl, remaining, final_risk, arr, rrr, edits

profile == << age, sex, smoker, diabetes, egfr, vasc, total_chol, hdl, crp, sbp_current >>

lipids == << baseline_ldl, pre_tx, add_tx >>

plan == << hba1c, sbp_target, ivs, horizon >>

results == << risk10, risk5, baseline_risk, baseline_risk_capped, adjusted_ldl,
              final_ldl, remaining, final_risk, arr, rrr >>

vars == << profile, lipids, plan, results, edits >>

\* the values a session may give to the widgets (each within the widget's range)
AgeValues == { 30, 60, 90 }

SexValues == { "Male", "Female" }

EgfrValues == { 15, 80, 120 }

TotalCholValues == { 50, 52, 100 }

HdlValues == { 10, 30 }

CrpValues == { 1, 20, 200 }

BaselineLdlValues == { 5, 10, 35, 45 }

Hba1cValues == { 70, 73, 120 }

SbpCurrentValues == { 145, 220 }

SbpTargetValues == { 120, 145 }

(***************************************************************************)
(* One run of the script (lines 102-146) on the new widget values.  The    *)
(* risk score is a pure function of the profile: a run after a change that *)
(* leaves the profile alone recomputes the values it already holds         *)
(* (RiskCurrent below states it), so the model carries them over.          *)
(***************************************************************************)
Score ==
  /\ risk10' = IF profile' = profile THEN risk10
               ELSE estimate_smart_risk(age', sex', sbp_current', total_chol', hdl',
                                        smoker', diabetes', egfr', crp', VascCount(vasc'))
  /\ risk5' = IF profile' = profile THEN risk5 ELSE convert_5yr_from_10yr(risk10')

Calculations ==
  /\ Score
  /\ baseline_risk' = BaselineRisk(horizon', risk5', risk10')
  /\ baseline_risk_capped' = BaselineRiskCapped(baseline_risk', horizon')
  /\ adjusted_ldl' = AdjustedLdl(baseline_ldl', pre_tx')
  /\ final_ldl' = FinalLdl(adjusted_ldl', add_tx')
  /\ remaining' = Remaining(baseline_risk_capped', ivs', horizon', baseline_ldl',
                            final_ldl', sbp_current', sbp_target', hba1c')
  /\ final_risk' = FinalRisk(remaining')
  /\ arr' = Arr(baseline_risk_capped', final_risk')
  /\ rrr' = Rrr(arr', baseline_risk_capped')

\* the widget defaults and the first run of the script
Init ==
  /\ age = 60
  /\ sex = "Male"
  /\ smoker = FALSE
  /\ diabetes = FALSE
  /\ egfr = 80
  /\ vasc = << FALSE, FALSE, FALSE >>
  /\ total_chol = 50
  /\ hdl = 10
  /\ crp = 20
  /\ baseline_ldl = 35
  /\ hba1c = 70
  /\ pre_tx = << >>
  /\ add_tx = << >>
  /\ sbp_current = 145
  /\ sbp_target = 120
  /\ ivs = {}
  /\ horizon = "10yr"
  /\ edits = 0
  /\ risk10 = estimate_smart_risk(age, sex, sbp_current, total_chol, hdl, smoker,
                                  diabetes, egfr, crp, VascCount(vasc))
  /\ risk5 = convert_5yr_from_10yr(risk10)
  /\ baseline_risk = BaselineRisk(horizon, risk5, risk10)
  /\ baseline_risk_capped = BaselineRiskCapped(baseline_risk, horizon)
  /\ adjusted_ldl = AdjustedLdl(baseline_ldl, pre_tx)
  /\ final_ldl = FinalLdl(adjusted_ldl, add_tx)
  /\ remaining = Remaining(baseline_risk_capped, ivs, horizon, baseline_ldl,
                           final_ldl, sbp_current, sbp_target, hba1c)
  /\ final_risk = FinalRisk(remaining)
  /\ arr = Arr(baseline_risk_capped, final_risk)
  /\ rrr = Rrr(arr, baseline_risk_capped)

(***************************************************************************)
(* Streamlit runs the script again after every change of a widget.  The    *)
(* definitions below are the widget changes; every step of a session is    *)
(* one of them together with Rerun, the run of the script on the new       *)
(* widget values.                                                          *)
(***************************************************************************)
Rerun == edits' = edits + 1 /\ Calculations

SetAge(v) ==
  /\ v # age
  /\ age' = v
  /\ UNCHANGED << sex, smoker, diabetes, egfr, vasc, total_chol, hdl, crp, sbp_current,
                  lipids, plan >>

SetSex(v) ==
  /\ v # sex
  /\ sex' = v
  /\ UNCHANGED << age, smoker, diabetes, egfr, vasc, total_chol, hdl, crp, sbp_current,
                  lipids, plan >>

ToggleSmoker ==
  /\ smoker' = ~smoker
  /\ UNCHANGED << age, sex, diabetes, egfr, vasc, total_chol, hdl, crp, sbp_current,
                  lipids, plan >>

ToggleDiabetes ==
  /\ diabetes' = ~diabetes
  /\ UNCHANGED << age, sex, smoker, egfr, vasc, total_chol, hdl, crp, sbp_current,
                  lipids, plan >>

SetEgfr(v) ==
  /\ v # egfr
  /\ egfr' = v
  /\ UNCHANGED << age, sex, smoker, diabetes, vasc, total_chol, hdl, crp, sbp_current,
                  lipids, plan >>

ToggleVasc(i) ==
  /\ vasc' = [vasc EXCEPT ![i] = ~vasc[i]]
  /\ UNCHANGED << age, sex, smoker, diabetes, egfr, total_chol, hdl, crp, sbp_current,
                  lipids, plan >>

SetTotalChol(v) ==
  /\ v # total_chol
  /\ total_chol' = v
  /\ UNCHANGED << age, sex, smoker, diabetes, egfr, vasc, hdl, crp, sbp_current,
                  lipids, plan >>

SetHdl(v) ==
  /\ v # hdl
  /\ hdl' = v
  /\ UNCHANGED << age, sex, smoker, diabetes, egfr, vasc, total_chol, crp, sbp_current,
                  lipids, plan >>

SetCrp(v) ==
  /\ v # crp
  /\ crp' = v
  /\ UNCHANGED << age, sex, smoker, diabetes, egfr, vasc, total_chol, hdl, sbp_current,
                  lipids, plan >>

SetSbpCurrent(v) ==
  /\ v # sbp_current
  /\ sbp_current' = v
  /\ UNCHANGED << age, sex, smoker, diabetes, egfr, vasc, total_chol, hdl, crp,
                  lipids, plan >>

SetBaselineLdl(v) ==
  /\ v # baseline_ldl
  /\ baseline_ldl' = v
  /\ UNCHANGED << profile, pre_tx, add_tx, plan >>

\* The add-on multiselect offers the therapies not in pre_tx: a change of pre_tx
\* changes its options, which makes it a new widget with nothing selected.
SelectPreTx(d) ==
  /\ d \notin Range(pre_tx)
  /\ pre_tx' = Append(pre_tx, d)
  /\ add_tx' = << >>
  /\ UNCHANGED << profile, baseline_ldl, plan >>

DeselectPreTx(d) ==
  /\ d \in Range(pre_tx)
  /\ pre_tx' = SelectSeq(pre_tx, LAMBDA x : x # d)
  /\ add_tx' = << >>
  /\ UNCHANGED << profile, baseline_ldl, plan >>

SelectAddTx(d) ==
  /\ d \notin Range(pre_tx)
  /\ d \notin Range(add_tx)
  /\ add_tx' = Append(add_tx, d)
  /\ UNCHANGED << profile, baseline_ldl, pre_tx, plan >>

DeselectAddTx(d) ==
  /\ d \in Range(add_tx)
  /\ add_tx' = SelectSeq(add_tx, LAMBDA x : x # d)
  /\ UNCHANGED << profile, baseline_ldl, pre_tx, plan >>

SetHba1c(v) ==
  /\ v # hba1c
  /\ hba1c' = v
  /\ UNCHANGED << profile, lipids, sbp_target, ivs, horizon >>

SetSbpTarget(v) ==
  /\ v # sbp_target
  /\ sbp_target' = v
  /\ UNCHANGED << profile, lipids, hba1c, ivs, horizon >>

ToggleIntervention(n) ==
  /\ ivs' = IF n \in ivs THEN ivs \ { n } ELSE ivs \cup { n }
  /\ UNCHANGED << profile, lipids, hba1c, sbp_target, horizon >>

SetHorizon(h) ==
  /\ h # horizon
  /\ horizon' = h
  /\ UNCHANGED << profile, lipids, hba1c, sbp_target, ivs >>

(***************************************************************************)
(* Sessions.  Each specification starts from the widget defaults and lets  *)
(* the user change a group of widgets, a bounded number of times.          *)
(***************************************************************************)
\* the widget changes a session may make
MaxRiskEdits == 2

MaxLdlEdits == 3

MaxStackEdits == 3

\* the user fills in the patient profile
NextRisk ==
  /\ edits < MaxRiskEdits
  /\ \/ \E v \in AgeValues : SetAge(v)
     \/ \E v \in SexValues : SetSex(v)
     \/ ToggleSmoker
     \/ ToggleDiabetes
     \/ \E v \in EgfrValues : SetEgfr(v)
     \/ \E i \in 1..3 : ToggleVasc(i)
     \/ \E v \in TotalCholValues : SetTotalChol(v)
     \/ \E v \in HdlValues : SetHdl(v)
     \/ \E v \in CrpValues : SetCrp(v)
     \/ \E v \in SbpCurrentValues : SetSbpCurrent(v)
  /\ Rerun

SpecRisk == Init /\ [][NextRisk]_vars

\* the user enters the baseline LDL and picks lipid-lowering therapies
NextLdl ==
  /\ edits < MaxLdlEdits
  /\ \/ \E v \in BaselineLdlValues : SetBaselineLdl(v)
     \/ \E d \in TherapyNames : SelectPreTx(d)
     \/ \E d \in TherapyNames : DeselectPreTx(d)
     \/ \E d \in TherapyNames : SelectAddTx(d)
     \/ \E d \in TherapyNames : DeselectAddTx(d)
  /\ Rerun

SpecLdl == Init /\ [][NextLdl]_vars

\* the values and therapies used in the sessions on the intervention plan
PlanAgeValues == { 30, 60 }

PlanTotalCholValues == { 50, 52 }

PlanTherapies == { "Ezetimibe", "PCSK9 inhibitor" }

\* the user builds the intervention plan
NextStack ==
  /\ edits < MaxStackEdits
  /\ \/ \E n \in InterventionNames : ToggleIntervention(n)
     \/ \E h \in Horizons : SetHorizon(h)
     \/ \E v \in SbpTargetValues : SetSbpTarget(v)
     \/ \E v \in Hba1cValues : SetHba1c(v)
     \/ \E v \in PlanAgeValues : SetAge(v)
     \/ \E v \in PlanTotalCholValues : SetTotalChol(v)
     \/ \E d \in PlanTherapies : SelectPreTx(d)
  /\ Rerun

SpecStack == Init /\ [][NextStack]_vars

\* the risk results are those of the current profile
RiskCurrent ==
  /\ risk10 = estimate_smart_risk(age, sex, sbp_current, total_chol, hdl, smoker,
                                  diabetes, egfr, crp, VascCount(vasc))
  /\ risk5 = convert_5yr_from_10yr(risk10)

\* the user builds a plan of the strongest measures
CapInterventions ==
  { "Smoking cessation", "BP control (ACEi/ARB +- CCB)", "Weight loss to ideal BMI",
    "Mediterranean diet", "Physical activity" }

CapHba1cValues == { 120 }

CapTherapies == { "PCSK9 inhibitor" }

MaxCapEdits == 5

NextCap ==
  /\ edits < MaxCapEdits
  /\ \/ \E n \in CapInterventions : ToggleIntervention(n)
     \/ \E v \in CapHba1cValues : SetHba1c(v)
     \/ \E d \in CapTherapies : SelectPreTx(d)
     \/ \E d \in CapTherapies : DeselectPreTx(d)
  /\ Rerun

SpecCap == Init /\ [][NextCap]_vars

(***************************************************************************)
(* Properties.                                                             *)
(***************************************************************************)
\* the orders in which the members of a sequence without repetitions can come
Perms(s) ==
  { p \in [1..Len(s) -> Range(s)] : \A i, j \in 1..Len(s) : p[i] = p[j] => i = j }

\* C1: the projected LDL (final_ldl) and the LDL after the pre-admission step
\* (adjusted_ldl) are never below 1.0 mmol/L, whatever the baseline LDL and the
\* therapies selected.
LdlNeverBelowOne == FLe(One, adjusted_ldl) /\ FLe(One, final_ldl)

\* the therapies selected would take the LDL below 1.0, and the floor holds it
LdlFloorReached ==
  /\ pre_tx # << >>
  /\ FLt(ApplyPre(Dec1(baseline_ldl), pre_tx), One)
  /\ adjusted_ldl = One
  /\ final_ldl = One

\* the reported final risk of the same inputs with no intervention ticked
NoPlanFinalRisk ==
  FinalRisk(Remaining(baseline_risk_capped, {}, horizon, baseline_ldl, final_ldl,
                      sbp_current, sbp_target, hba1c))

\* C2 as stated: ticking a single intervention, nothing else changed, strictly
\* decreases the reported final risk.
SingleInterventionStrictlyLowers ==
  [][(ivs = {} /\ ivs' # {}) => final_risk' < final_risk]_vars

\* C2: ticking a single intervention, nothing else changed, strictly decreases
\* the running probability and never increases the reported (rounded) final
\* risk.
SingleInterventionNeverRaises ==
  [][(ivs = {} /\ ivs' # {}) => (FLt(remaining', remaining) /\ final_risk' <= final_risk)]_vars

\* one intervention is ticked and the reported final risk is below that of no
\* intervention
SingleInterventionLowered == Cardinality(ivs) = 1 /\ final_risk < NoPlanFinalRisk

\* nothing is selected that lowers the risk
IdentityCase ==
  /\ ivs = {}
  /\ ~FLt(final_ldl, Dec1(baseline_ldl))
  /\ sbp_target >= sbp_current
  /\ hba1c <= 70

\* C3: with no intervention, a projected LDL not below the baseline LDL, a target
\* SBP not below the current SBP and HbA1c <= 7.0, the reported final risk is
\* the capped baseline risk exactly, and ARR and RRR are 0.
NothingSelectedKeepsBaseline ==
  IdentityCase => (final_risk = baseline_risk_capped /\ arr = 0 /\ rrr = 0)

\* the identity case on the five-year horizon
IdentityCaseFiveYear ==
  IdentityCase /\ horizon = "5yr" /\ baseline_risk_capped > 0 /\ final_risk = baseline_risk_capped

\* C4: the reported RRR is never above 75; with a capped baseline risk above 0
\* it is 75 when ARR / baseline x 100 is 75 or more and otherwise that ratio to
\* the nearest tenth; with a capped baseline risk of 0 it is 0 and nothing is
\* divided.
RrrCappedAt75 ==
  /\ rrr <= 750
  /\ Rrr(arr, 0) = 0
  /\ baseline_risk_capped # 0 =>
       IF 1000 * arr >= 750 * baseline_risk_capped THEN rrr = 750
       ELSE /\ 2 * (rrr * baseline_risk_capped - 1000 * arr) <= baseline_risk_capped
            /\ 2 * (1000 * arr - rrr * baseline_risk_capped) <= baseline_risk_capped

\* the reduction is above 75 percent of the baseline and is reported as 75
RrrCapApplies ==
  /\ baseline_risk_capped # 0
  /\ 1000 * arr > 750 * baseline_risk_capped
  /\ rrr = 750

\* the projected LDL with the pre-admission therapies in the order p
PermutedLdl(p) == FinalLdl(AdjustedLdl(baseline_ldl, p), add_tx)

\* f"{final_ldl:.2f}": the projected LDL as the page reports it, in hundredths
LdlShown(x) == RoundScaled(x, 100)

\* C5 as stated, read within rounding: the pre-admission therapies in any order
\* give the same projected LDL as reported, to two decimals.  (The same float
\* in every order would be a stronger statement still.)
PreTxOrderSameLdl ==
  \A p \in Perms(pre_tx) : LdlShown(PermutedLdl(p)) = LdlShown(final_ldl)

\* three units in the last place of x
LdlRounding(x) == [FromInt(3) EXCEPT !.e = @ + x.e]

\* C5: the pre-admission therapies in any order give the same projected LDL up to
\* the rounding of the float products only: the values are within three units in
\* the last place of each other, and reported to two decimals they are at most
\* 0.01 apart, not always equal.
PreTxOrderWithinRounding ==
  \A p \in Perms(pre_tx) :
    /\ FLe(FAbs(FSub(PermutedLdl(p), final_ldl)), LdlRounding(final_ldl))
    /\ LdlShown(PermutedLdl(p)) - LdlShown(final_ldl) \in { -1, 0, 1 }

\* two pre-admission therapies are selected, the projected LDL is above the
\* floor, and in another order the product comes out as a different float
PreTxOrderChangesLdl ==
  /\ Len(pre_tx) >= 2
  /\ FLt(One, final_ldl)
  /\ \E p \in Perms(pre_tx) : PermutedLdl(p) # final_ldl

\* the four stacking steps of the script, by number
StackStep(k, rem) ==
  CASE k = 1 -> ApplyInterventions(rem, 1, ivs, horizon)
    [] k = 2 -> ApplyLdl(rem, baseline_ldl, final_ldl)
    [] k = 3 -> ApplyBp(rem, sbp_current, sbp_target)
    [] k = 4 -> ApplyHba1c(rem, hba1c)

\* the reported final risk with the stacking steps taken in the order o
StackedIn(o) ==
  FinalRisk(StackStep(o[4], StackStep(o[3], StackStep(o[2],
              StackStep(o[1], FDivSmall(Dec1(baseline_risk_capped), 100))))))

Orders == Perms(<< 1, 2, 3, 4 >>)

\* C6 as stated: the four stacking steps in any order give the same final risk
\* as the order of the script.
StackOrderSameRisk == \A o \in Orders : StackedIn(o) = final_risk

\* C6: the four stacking steps in any order give a reported final risk within
\* 0.1 percentage points of that of the order of the script.
StackOrderWithinOneTenth ==
  \A o \in Orders : StackedIn(o) - final_risk \in { -1, 0, 1 }

\* all four steps change the probability
AllStepsApply ==
  /\ ivs # {}
  /\ FLt(final_ldl, Dec1(baseline_ldl))
  /\ sbp_target < sbp_current
  /\ hba1c > 70

\* C7 as stated: the 10-year risk is in [0, 100) and the 5-year risk is not above
\* it.
RiskBelowHundred == risk10 >= 0 /\ risk10 < 1000 /\ risk5 <= risk10

\* C7: the 10-year risk of the profile is in [0, 100], 100.0 included, and the
\* 5-year risk converted from it is not above it.
RiskWithinHundred == RiskCurrent /\ risk10 >= 0 /\ risk10 <= 1000 /\ risk5 <= risk10

\* the 10-year risk is reported as 100.0
RiskReachesHundred == risk10 = 1000

\* C8: the running probability never rises from one stacking step to the next
\* and stays between 0 and the capped baseline probability, so the reported
\* final risk is between 0 and the capped baseline risk and ARR is not negative.
StackingNeverRaises ==
  LET r0 == FDivSmall(Dec1(baseline_risk_capped), 100)
      r1 == ApplyInterventions(r0, 1, ivs, horizon)
      r2 == ApplyLdl(r1, baseline_ldl, final_ldl)
      r3 == ApplyBp(r2, sbp_current, sbp_target)
      r4 == ApplyHba1c(r3, hba1c)
  IN /\ r4 = remaining
     /\ FLe(FZero, r4) /\ FLe(r4, r3) /\ FLe(r3, r2) /\ FLe(r2, r1) /\ FLe(r1, r0)
     /\ 0 <= final_risk /\ final_risk <= baseline_risk_capped
     /\ arr >= 0

\* interventions are ticked and the final risk is below the capped baseline
RiskLowered == ivs # {} /\ 0 < final_risk /\ final_risk < baseline_risk_capped /\ arr > 0

\* C9: with a baseline LDL of 1.0 mmol/L or less the projected LDL is exactly
\* 1.0 whatever is selected, so it is not below the baseline LDL, the LDL step
\* leaves the probability as it is, and a change of the lipid therapy does not
\* change the final risk.
LowBaselineLdlPinned ==
  [][baseline_ldl' <= 10 =>
       /\ final_ldl' = One
       /\ ~FLt(final_ldl', Dec1(baseline_ldl'))
       /\ ApplyLdl(remaining', baseline_ldl', final_ldl') = remaining'
       /\ baseline_ldl <= 10 => final_risk' = final_risk]_vars

\* the baseline LDL is 1.0 or less and lipid therapy is selected
LowBaselineLdlTreated == baseline_ldl <= 10 /\ pre_tx # << >> /\ add_tx # << >>

\* C10: an intervention counts with its 5-year effect size on the five-year
\* horizon only and with its lifetime effect size on the ten-year and the
\* lifetime horizon, so that for the same capped baseline risk and selections
\* the ten-year and the lifetime final risk are the same.
TenYearUsesLifetimeEffect ==
  /\ \A i \in 1..Len(interventions) :
       /\ EffectSize(interventions[i], "5yr") = interventions[i].arr_5yr
       /\ EffectSize(interventions[i], "10yr") = interventions[i].arr_lifetime
       /\ EffectSize(interventions[i], "lifetime") = interventions[i].arr_lifetime
  /\ FinalRisk(Remaining(baseline_risk_capped, ivs, "10yr", baseline_ldl, final_ldl,
                         sbp_current, sbp_target, hba1c))
     = FinalRisk(Remaining(baseline_risk_capped, ivs, "lifetime", baseline_ldl, final_ldl,
                           sbp_current, sbp_target, hba1c))

\* interventions are ticked on the lifetime horizon
LifetimePlan == ivs # {} /\ horizon = "lifetime"

====
